---- MODULE Spec2Model ----
(***************************************************************************)
(* State-machine model of the ASM2d-N2O biokinetic model                   *)
(* (src/asmbase.py: class asm_model, src/ASM2d_N2O.py: class ASM2d_N2O).   *)
(*                                                                         *)
(* One model instance is the state.  Its public operations                 *)
(* (alter_kinetic_20C, update, set_KLa, _dCdt) are the actions.            *)
(*                                                                         *)
(* Python floats are modelled as exact rationals <<n, d>> with d > 0 in    *)
(* lowest terms.  A Python exception raised while an expression is         *)
(* evaluated is modelled as an error value <<code, 0>> that every          *)
(* arithmetic operator propagates (left operand first, as Python           *)
(* evaluates); the statement that produced it is the statement that        *)
(* raises, and the statements after it are not executed.                   *)
(***************************************************************************)
EXTENDS Integers, Sequences, FiniteSets, TLC

----------------------------------------------------------------------------
(* Exact rational arithmetic standing for Python float arithmetic.         *)

RECURSIVE GCD(_, _)
GCD(a, b) == IF b = 0 THEN a ELSE GCD(b, a % b)

Abs(x) == IF x < 0 THEN -x ELSE x

\* The rational n/d in lowest terms with a positive denominator (d # 0).
R(n, d) ==
    LET g == GCD(Abs(n), Abs(d))
        sgn == IF d < 0 THEN -1 ELSE 1
    IN  <<sgn * (n \div g), sgn * (d \div g)>>

Zero == <<0, 1>>
One == <<1, 1>>

\* Error values: the exception a Python expression raises.
ZeroDivisionError == <<1, 0>>
KeyError == <<2, 0>>
TypeError == <<3, 0>>
IndexError == <<4, 0>>

IsErr(v) == v[2] = 0

ErrName(v) ==
    CASE v = ZeroDivisionError -> "ZeroDivisionError"
      [] v = KeyError -> "KeyError"
      [] v = TypeError -> "TypeError"
      [] v = IndexError -> "IndexError"
      [] OTHER -> "none"

\* An error operand is the result, the left one first.
Add(a, b) ==
    IF IsErr(a) THEN a ELSE IF IsErr(b) THEN b ELSE
    LET g == GCD(a[2], b[2])
    IN  R(a[1] * (b[2] \div g) + b[1] * (a[2] \div g), (a[2] \div g) * b[2])

Neg(a) == IF IsErr(a) THEN a ELSE <<-a[1], a[2]>>

Sub(a, b) == Add(a, Neg(b))

Mul(a, b) ==
    IF IsErr(a) THEN a ELSE IF IsErr(b) THEN b ELSE
    IF a[1] = 0 \/ b[1] = 0 THEN Zero ELSE
    LET g1 == GCD(Abs(a[1]), b[2])
        g2 == GCD(Abs(b[1]), a[2])
    IN  <<(a[1] \div g1) * (b[1] \div g2), (a[2] \div g2) * (b[2] \div g1)>>

\* Python's true division: a zero divisor raises ZeroDivisionError.
Div(a, b) ==
    IF IsErr(a) THEN a ELSE IF IsErr(b) THEN b ELSE
    IF b[1] = 0 THEN ZeroDivisionError
    ELSE Mul(a, IF b[1] < 0 THEN <<-b[2], -b[1]>> ELSE <<b[2], b[1]>>)

Sq(a) == Mul(a, a)

\* The largest r with r * r <= n, for n >= 0.
ISqrt(n) == CHOOSE r \in 0..(n + 1) : r * r <= n /\ (r + 1) * (r + 1) > n

\* x ** (1 / 2) on a non-negative rational, to three decimals (the square
\* root is irrational in general; only the rate of process 35 uses it).
Sqrt(a) ==
    IF IsErr(a) THEN a ELSE R(ISqrt((a[1] * 1000000) \div a[2]), 1000)

IsPos(a) == ~IsErr(a) /\ a[1] > 0
IsNeg(a) == ~IsErr(a) /\ a[1] < 0
IsZero(a) == ~IsErr(a) /\ a[1] = 0

----------------------------------------------------------------------------
(* Python dicts and lists.                                                  *)

EmptyDict == <<>>

\* d[key] = v
Put(d, key, v) == (key :> v) @@ d

\* d[key]; a missing key raises KeyError
Get(d, key) == IF key \in DOMAIN d THEN d[key] ELSE KeyError

\* l[i]; an index outside the list raises IndexError
Item(l, i) == IF i \in DOMAIN l THEN l[i] ELSE IndexError

\* The statement d[key] = v at source line `line`, run after the statements
\* whose outcome is st = [d, raised, line]: an exception raised while v is
\* evaluated stops there and leaves d as it was.
store(st, key, v, line) ==
    IF IsErr(v)
    THEN [d |-> st.d, raised |-> ErrName(v), line |-> line]
    ELSE [d |-> Put(st.d, key, v), raised |-> "none", line |-> 0]

\* The statement l[i] = v at source line `line`, run after the statements
\* whose outcome is st = [l, raised, line].  The right-hand side is evaluated
\* first; storing at an index the list does not have raises IndexError.
store_item(st, i, v, line) ==
    IF IsErr(v)
    THEN [l |-> st.l, raised |-> ErrName(v), line |-> line]
    ELSE IF i \notin DOMAIN st.l
    THEN [l |-> st.l, raised |-> "IndexError", line |-> line]
    ELSE [l |-> [st.l EXCEPT ![i] = v], raised |-> "none", line |-> 0]

\* [v] * n, indexed from 0 as in Python
ListOf(v, n) == [i \in 0..(n - 1) |-> v]

\* Length of _comps and of the state vectors.
NumComps == 24
\* Length of _monods as allocated by the constructor.
NumMonods == 52
\* Length of _rate_res as allocated by the constructor.
NumRates == 40

----------------------------------------------------------------------------
(* asm_model (src/asmbase.py)                                               *)

\* asm_model.__init__: the placeholder oxygen transfer coefficient,
\* 60 * 24 / (9 - 2).
KLaDefault == R(60 * 24, 9 - 2)

\* asm_model._monod
monod(term_in_num_denum, term_only_in_denum) ==
    Div(term_in_num_denum, Add(term_in_num_denum, term_only_in_denum))

\* Variants of the test of alter_kinetic_20C, against which the properties of
\* the method are shown to depend on it: `>= 0` written for `> 0`, and the
\* test on the name left out.
alter_accepts_nonneg(k, name, new_val) == ~IsNeg(new_val) /\ name \in DOMAIN k
alter_accepts_any_name(k, name, new_val) == IsPos(new_val)

\* Variant of the test of alter_kinetic_20C: the test on the value left out.
alter_accepts_any_value(k, name, new_val) == name \in DOMAIN k

\* The test of alter_kinetic_20C: the new value is written iff it holds.
alter_accepts(k, name, new_val) == IsPos(new_val) /\ name \in DOMAIN k

\* Variant of the test of set_KLa: `>= 0` written for `> 0`.
KLa_accepts_zero(kla) == ~IsNeg(kla)

\* The test of set_KLa: the new value is written iff it holds.
KLa_accepts(kla) == IsPos(kla)

AlterErrorMessage == "ERROR IN ALTERING 20C KINETICS. NO PARAMETER WAS CHANGED"
KLaErrorMessage == "ERROR IN USER GIVEN KLa VALUE. KLa NOT CHANGED"

----------------------------------------------------------------------------
(* ASM2d_N2O (src/ASM2d_N2O.py)                                             *)

\* _set_ideal_kinetics_20C_to_defaults: the dict it leaves in _kinetics_20C.
set_ideal_kinetics_20C_to_defaults ==
    [i_NSF |-> R(3, 100),
     i_PSF |-> R(1, 100),
     i_NSI |-> R(1, 100),
     i_PSI |-> Zero,
     i_NXI |-> R(1, 50),
     i_PXI |-> R(1, 100),
     i_TSSXI |-> R(3, 4),
     i_NXS |-> R(1, 25),
     i_PXS |-> R(1, 100),
     i_TSSXS |-> R(3, 4),
     i_NBM |-> R(7, 100),
     i_PBM |-> R(1, 50),
     i_TSSBM |-> R(9, 10),
     Y_H |-> R(5, 8),
     Y_PHA |-> R(1, 5),
     Y_PAO |-> R(5, 8),
     Y_PO4 |-> R(2, 5),
     Y_AOB |-> R(9, 50),
     Y_NOB |-> R(2, 25),
     f_SI |-> Zero,
     f_XI |-> R(1, 10),
     n_G |-> One,
     K_H |-> R(3, 1),
     K_O2_H |-> R(1, 5),
     K_X_H |-> R(1, 10),
     n_NO3_H |-> R(3, 5),
     n_NO2_H |-> R(3, 5),
     K_NO3_H |-> R(1, 2),
     K_NO2_H |-> R(1, 2),
     n_fe_H |-> R(2, 5),
     mu_H |-> R(6, 1),
     K_O2 |-> R(1, 5),
     K_F |-> R(4, 1),
     K_NH4 |-> R(1, 20),
     K_P |-> R(1, 100),
     K_ALK |-> R(1, 10),
     K_A |-> R(4, 1),
     K_NO3 |-> R(1, 2),
     K_NO2 |-> R(1, 2),
     n_NO3_D |-> R(4, 5),
     q_fe |-> R(3, 1),
     K_fe_H |-> R(4, 1),
     b_H |-> R(2, 5),
     mu_H_Den |-> R(25, 4),
     n_G3 |-> R(4, 25),
     n_G4 |-> R(7, 20),
     n_G5 |-> R(7, 20),
     K_S3 |-> R(20, 1),
     K_S4 |-> R(20, 1),
     K_S5 |-> R(40, 1),
     K_NO2_Den |-> R(1, 5),
     K_OH4 |-> R(1, 10),
     K_N2O_Den |-> R(1, 20),
     K_OH3 |-> R(1, 10),
     K_NO_Den |-> R(1, 20),
     K_OH5 |-> R(1, 10),
     K_I3NO |-> R(1, 2),
     K_I4NO |-> R(3, 10),
     K_I5NO |-> R(3, 40),
     q_PHA |-> R(3, 1),
     K_A_P |-> R(4, 1),
     K_ALK_P |-> R(1, 10),
     q_PP |-> R(3, 2),
     K_O2_P |-> R(1, 5),
     K_P_P |-> R(1, 5),
     K_PHA_P |-> R(1, 100),
     K_MAX_P |-> R(17, 50),
     K_PP_P |-> R(1, 100),
     K_IPP_P |-> R(1, 50),
     K_PO4_P |-> R(1, 100),
     n_NO3_P |-> R(3, 5),
     n_NO2_P |-> R(3, 5),
     K_NO3_P |-> R(1, 2),
     K_NO2_P |-> R(1, 2),
     mu_PAO |-> One,
     b_PAO |-> R(1, 5),
     b_PP |-> R(1, 5),
     b_PHA |-> R(1, 5),
     mu_AOB_HAO |-> R(39, 50),
     q_AOB_AMO |-> R(6501, 1250),
     K_O2_AOB1 |-> One,
     K_NH4_AOB |-> R(1, 5),
     K_O2_AOB2 |-> R(3, 5),
     K_NH2OH_AOB |-> R(9, 10),
     q_AOB_HAO |-> R(6501, 1250),
     K_NO_AOB_HAO |-> R(3, 10000),
     q_AOB_N2O_NN |-> R(39, 5000),
     K_NO_AOB_NN |-> R(1, 125),
     K_O2_AOB_ND |-> R(1, 2),
     K_I_O2_AOB |-> R(4, 5),
     K_HNO2_AOB |-> R(1, 250),
     q_AOB_N2O_ND |-> R(813, 625),
     K_ALK_AOB |-> R(1, 10),
     K_P_AOB |-> R(1, 100),
     mu_NOB |-> R(39, 50),
     K_O2_NOB |-> R(6, 5),
     K_ALK_NOB |-> R(1, 10),
     K_NO2_NOB |-> R(1, 2),
     K_P_NOB |-> R(1, 100),
     b_AOB |-> R(12, 125),
     b_NOB |-> R(12, 125),
     k_PRE |-> One,
     k_RED |-> R(3, 5),
     K_ALK_PR |-> R(1, 2)]

\* _set_params: its assignments in textual order, each
\* <<key of _params written, key of _kinetics_20C read, source line>>.
ParamAssignments ==
    <<<<"i_NSF", "i_NSF", 195>>, <<"i_PSF", "i_PSF", 196>>,
      <<"i_NSI", "i_NSI", 197>>, <<"i_PSI", "i_PSI", 198>>,
      <<"i_NXI", "i_NXI", 199>>, <<"i_PXI", "i_PXI", 200>>,
      <<"i_TSSXI", "i_TSSXI", 201>>, <<"i_NXS", "i_NXS", 202>>,
      <<"i_PXS", "i_PXS", 203>>, <<"i_TSSXS", "i_TSSXS", 204>>,
      <<"i_NBM", "i_NBM", 205>>, <<"i_PBM", "i_PBM", 206>>,
      <<"i_TSSBM", "i_TSSBM", 207>>, <<"Y_H", "Y_H", 210>>,
      <<"Y_PHA", "Y_PHA", 211>>, <<"Y_PAO", "Y_PAO", 212>>,
      <<"Y_PO4", "Y_PO4", 213>>, <<"Y_AOB", "Y_AOB", 214>>,
      <<"Y_NOB", "Y_NOB", 215>>, <<"f_SI", "f_SI", 216>>,
      <<"f_XI", "f_XI", 217>>, <<"n_G", "n_G", 218>>,
      <<"K_H", "K_H", 221>>, <<"K_O2_H", "K_O2_H", 222>>,
      <<"K_X_H", "K_X_H", 223>>, <<"n_NO3_H", "n_NO3_H", 224>>,
      <<"n_NO2_H", "n_NO2_H", 225>>, <<"K_NO3_H", "K_NO3_H", 226>>,
      <<"K_NO2_H", "K_NO2_H", 227>>, <<"n_fe_H", "n_fe_H", 228>>,
      <<"mu_H", "mu_H", 230>>, <<"K_O2", "K_O2", 231>>,
      <<"K_F", "K_F", 232>>, <<"K_NH4", "K_NH4", 233>>,
      <<"K_P", "K_P", 234>>, <<"K_ALK", "K_ALK", 235>>,
      <<"K_A", "K_A", 236>>, <<"K_NO3", "K_NO3", 237>>,
      <<"K_NO2", "K_NO2", 238>>, <<"n_NO3_D", "n_NO3_D", 239>>,
      <<"q_fe", "q_fe", 240>>, <<"K_fe_H", "K_fe_H", 241>>,
      <<"b_H", "b_H", 242>>, <<"mu_H_Den", "mu_H_Den", 243>>,
      <<"n_G3", "n_G3", 244>>, <<"n_G4", "n_G4", 245>>,
      <<"n_G5", "n_G5", 246>>, <<"K_S3", "K_S3", 247>>,
      <<"K_S4", "K_S4", 248>>, <<"K_S5", "K_S5", 249>>,
      <<"K_NO2_Den", "K_NO2_Den", 250>>, <<"K_OH4", "K_OH4", 251>>,
      <<"K_N2O_Den", "K_N2O_Den", 252>>, <<"K_OH3", "K_OH3", 253>>,
      <<"K_NO_Den", "K_NO_Den", 254>>, <<"K_OH5", "K_OH5", 255>>,
      <<"K_I3NO", "K_I3NO", 256>>, <<"K_I4NO", "K_I4NO", 257>>,
      <<"K_I5NO", "K_I5NO", 258>>, <<"q_PHA", "q_PHA", 260>>,
      <<"K_A_P", "K_A_P", 261>>, <<"K_ALK_P", "K_ALK_P", 262>>,
      <<"q_PP", "q_PP", 263>>, <<"K_O2_P", "K_O2_P", 264>>,
      <<"K_P_P", "K_P_P", 265>>, <<"K_PHA_P", "K_PHA_P", 266>>,
      <<"K_MAX_P", "K_MAX_P", 267>>, <<"K_PP_P", "K_PP_P", 268>>,
      <<"K_IPP_P", "K_IPP_P", 269>>, <<"K_PO4_P", "K_PO4_P", 270>>,
      <<"n_NO3_P", "n_NO3_P", 271>>, <<"n_NO2_P", "n_NO2_P", 272>>,
      <<"K_NO3_P", "K_NO3_P", 273>>, <<"K_NO2_P", "K_NO2_P", 274>>,
      <<"mu_PAO", "mu_PAO", 275>>, <<"b_PAO", "b_PAO", 276>>,
      <<"b_PP", "b_PP", 277>>, <<"b_PHA", "b_PHA", 278>>,
      <<"mu_AOB_HAO", "mu_AOB_HAO", 280>>,
      <<"q_AOB_AMO", "q_AOB_AMO", 281>>, <<"K_O2_AOB1", "K_O2_AOB1", 282>>,
      <<"K_NH4_AOB", "K_NH4_AOB", 283>>, <<"K_O2_AOB2", "K_O2_AOB2", 284>>,
      <<"K_NH2OH_AOB", "K_NH2OH_AOB", 285>>,
      <<"q_AOB_HAO", "q_AOB_HAO", 286>>,
      <<"K_NO_AOB_HAO", "K_NO_AOB_HAO", 287>>,
      <<"q_AOB_N2O_NN", "q_AOB_N2O_NN", 288>>,
      <<"K_NO_AOB_NN", "K_NO_AOB_NN", 289>>,
      <<"K_O2_AOB_ND", "K_O2_AOB_ND", 290>>,
      <<"K_I_O2_AOB", "K_I_O2_AOB", 291>>,
      <<"K_HNO2_AOB", "K_HNO2_AOB", 292>>,
      <<"q_AOB_N2O_ND", "q_AOB_N2O_ND", 293>>,
      <<"K_ALK_AOB", "K_ALK_AOB", 294>>, <<"K_P_AOB", "K_P_AOB", 295>>,
      <<"mu_NOB", "mu_NOB", 296>>, <<"K_O2_NOB", "K_O2_NOB", 297>>,
      <<"K_ALK_NOB", "K_ALK_NOB", 298>>, <<"K_NO2_NOB", "K_NO2_NOB", 299>>,
      <<"K_P_NOB", "K_P_NOB", 300>>, <<"b_AOB", "b_AOB", 301>>,
      <<"b_NOB", "b_NOB", 302>>, <<"k_PRE", "k_PRE", 304>>,
      <<"k_RED", "k_RED", 305>>, <<"K_ALK_PR", "K_ALK_PR", 306>>>>

\* The assignments lo..hi of _set_params, in order, started from the outcome st
\* of the assignments before them: the dict left in _params, and the exception
\* (if any) that stopped the method.  (The range is halved rather than walked
\* one by one to keep the evaluation shallow.)
RECURSIVE set_params_range(_, _, _, _)
set_params_range(lo, hi, st, k) ==
    IF st.raised # "none" THEN st
    ELSE IF lo = hi
    THEN store(st, ParamAssignments[lo][1],
               Get(k, ParamAssignments[lo][2]), ParamAssignments[lo][3])
    ELSE set_params_range((lo + hi) \div 2 + 1, hi,
                          set_params_range(lo, (lo + hi) \div 2, st, k), k)

\* Variant of _set_params: the working mu_H is copied from the reference K_O2.
set_params_misnamed(p, k) ==
    store(set_params_range(1, Len(ParamAssignments),
                           [d |-> p, raised |-> "none", line |-> 0], k),
          "mu_H", Get(k, "K_O2"), 230)

\* Variant of _set_params: the assignment of K_H (line 221) is left out.
set_params_without_K_H(p, k) ==
    set_params_range(24, Len(ParamAssignments),
                     set_params_range(1, 22,
                                      [d |-> p, raised |-> "none", line |-> 0],
                                      k),
                     k)

set_params(p, k) ==
    set_params_range(1, Len(ParamAssignments),
                     [d |-> p, raised |-> "none", line |-> 0], k)

\* _set_stoichs: its assignments in textual order, each
\* <<key of _stoichs written, source line>>.
StoichAssignments ==
    <<<<"1_2", 320>>, <<"1_4", 321>>, <<"1_10", 322>>, <<"1_11", 323>>,
      <<"1_15", 324>>, <<"1_12", 325>>, <<"1_22", 326>>, <<"2_2", 328>>,
      <<"2_4", 329>>, <<"2_10", 330>>, <<"2_11", 331>>, <<"2_15", 332>>,
      <<"2_12", 333>>, <<"2_22", 334>>, <<"3_2", 336>>, <<"3_4", 337>>,
      <<"3_10", 338>>, <<"3_11", 339>>, <<"3_15", 340>>, <<"3_12", 341>>,
      <<"3_22", 342>>, <<"4_2", 344>>, <<"4_4", 345>>, <<"4_10", 346>>,
      <<"4_11", 347>>, <<"4_15", 348>>, <<"4_12", 349>>, <<"4_22", 350>>,
      <<"5_1", 352>>, <<"5_2", 353>>, <<"5_4", 354>>, <<"5_10", 355>>,
      <<"5_16", 356>>, <<"5_12", 357>>, <<"5_22", 358>>, <<"6_1", 360>>,
      <<"6_3", 361>>, <<"6_4", 362>>, <<"6_10", 363>>, <<"6_16", 364>>,
      <<"6_12", 365>>, <<"6_22", 366>>, <<"7_2", 368>>, <<"7_4", 369>>,
      <<"7_8", 370>>, <<"7_9", 371>>, <<"7_10", 372>>, <<"7_16", 373>>,
      <<"7_12", 374>>, <<"7_22", 375>>, <<"8_2", 377>>, <<"8_4", 378>>,
      <<"8_7", 379>>, <<"8_8", 380>>, <<"8_10", 381>>, <<"8_16", 382>>,
      <<"8_12", 383>>, <<"8_22", 384>>, <<"9_2", 386>>, <<"9_4", 387>>,
      <<"9_6", 388>>, <<"9_7", 389>>, <<"9_10", 390>>, <<"9_16", 391>>,
      <<"9_12", 392>>, <<"9_22", 393>>, <<"10_2", 395>>, <<"10_4", 396>>,
      <<"10_6", 397>>, <<"10_10", 398>>, <<"10_13", 399>>,
      <<"10_16", 400>>, <<"10_12", 401>>, <<"10_22", 402>>,
      <<"11_3", 404>>, <<"11_4", 405>>, <<"11_8", 406>>, <<"11_9", 407>>,
      <<"11_10", 408>>, <<"11_16", 409>>, <<"11_12", 410>>,
      <<"11_22", 411>>, <<"12_3", 413>>, <<"12_4", 414>>, <<"12_7", 415>>,
      <<"12_8", 416>>, <<"12_10", 417>>, <<"12_16", 418>>,
      <<"12_12", 419>>, <<"12_22", 420>>, <<"13_3", 422>>, <<"13_4", 423>>,
      <<"13_6", 424>>, <<"13_7", 425>>, <<"13_10", 426>>, <<"13_16", 427>>,
      <<"13_12", 428>>, <<"13_22", 429>>, <<"14_3", 431>>, <<"14_4", 432>>,
      <<"14_6", 433>>, <<"14_10", 434>>, <<"14_13", 435>>,
      <<"14_16", 436>>, <<"14_12", 437>>, <<"14_22", 438>>,
      <<"15_2", 440>>, <<"15_3", 441>>, <<"15_4", 442>>, <<"15_10", 443>>,
      <<"15_12", 444>>, <<"16_4", 446>>, <<"16_10", 447>>,
      <<"16_14", 448>>, <<"16_15", 449>>, <<"16_16", 450>>,
      <<"16_12", 451>>, <<"16_22", 452>>, <<"17_3", 454>>,
      <<"17_10", 455>>, <<"17_18", 456>>, <<"17_19", 457>>,
      <<"17_12", 458>>, <<"17_22", 459>>, <<"18_1", 461>>,
      <<"18_10", 462>>, <<"18_18", 463>>, <<"18_19", 464>>,
      <<"18_12", 465>>, <<"18_22", 466>>, <<"19_8", 468>>, <<"19_9", 469>>,
      <<"19_10", 470>>, <<"19_18", 471>>, <<"19_19", 472>>,
      <<"19_12", 473>>, <<"19_22", 474>>, <<"20_7", 476>>, <<"20_8", 477>>,
      <<"20_10", 478>>, <<"20_18", 479>>, <<"20_19", 480>>,
      <<"20_12", 481>>, <<"20_22", 482>>, <<"21_6", 484>>, <<"21_7", 485>>,
      <<"21_10", 486>>, <<"21_18", 487>>, <<"21_19", 488>>,
      <<"21_12", 489>>, <<"21_22", 490>>, <<"22_6", 492>>,
      <<"22_10", 493>>, <<"22_13", 494>>, <<"22_18", 495>>,
      <<"22_19", 496>>, <<"22_12", 497>>, <<"22_22", 498>>,
      <<"23_1", 500>>, <<"23_4", 501>>, <<"23_10", 502>>, <<"23_17", 503>>,
      <<"23_19", 504>>, <<"23_12", 505>>, <<"23_22", 506>>,
      <<"24_4", 508>>, <<"24_8", 509>>, <<"24_9", 510>>, <<"24_10", 511>>,
      <<"24_17", 512>>, <<"24_19", 513>>, <<"24_12", 514>>,
      <<"24_22", 515>>, <<"25_4", 517>>, <<"25_7", 518>>, <<"25_8", 519>>,
      <<"25_10", 520>>, <<"25_17", 521>>, <<"25_19", 522>>,
      <<"25_12", 523>>, <<"25_22", 524>>, <<"26_4", 526>>, <<"26_6", 527>>,
      <<"26_7", 528>>, <<"26_10", 529>>, <<"26_17", 530>>,
      <<"26_19", 531>>, <<"26_12", 532>>, <<"26_22", 533>>,
      <<"27_4", 535>>, <<"27_6", 536>>, <<"27_10", 537>>, <<"27_13", 538>>,
      <<"27_17", 539>>, <<"27_19", 540>>, <<"27_12", 541>>,
      <<"27_22", 542>>, <<"28_4", 544>>, <<"28_10", 545>>,
      <<"28_14", 546>>, <<"28_15", 547>>, <<"28_17", 548>>,
      <<"28_12", 549>>, <<"28_22", 550>>, <<"29_10", 552>>,
      <<"29_18", 553>>, <<"29_12", 554>>, <<"29_22", 555>>,
      <<"30_3", 557>>, <<"30_19", 558>>, <<"30_12", 559>>,
      <<"30_22", 560>>, <<"31_1", 562>>, <<"31_4", 563>>, <<"31_5", 564>>,
      <<"31_12", 565>>, <<"32_1", 567>>, <<"32_4", 568>>, <<"32_5", 569>>,
      <<"32_7", 570>>, <<"32_10", 571>>, <<"32_20", 572>>,
      <<"32_12", 573>>, <<"32_22", 574>>, <<"33_1", 576>>, <<"33_7", 577>>,
      <<"33_8", 578>>, <<"33_12", 579>>, <<"34_5", 581>>, <<"34_6", 582>>,
      <<"34_7", 583>>, <<"34_8", 584>>, <<"34_12", 585>>, <<"35_5", 587>>,
      <<"35_6", 588>>, <<"35_8", 589>>, <<"35_12", 590>>, <<"36_1", 592>>,
      <<"36_4", 593>>, <<"36_8", 594>>, <<"36_9", 595>>, <<"36_10", 596>>,
      <<"36_21", 597>>, <<"36_12", 598>>, <<"36_22", 599>>,
      <<"37_4", 601>>, <<"37_10", 602>>, <<"37_14", 603>>,
      <<"37_15", 604>>, <<"37_20", 605>>, <<"37_12", 606>>,
      <<"37_22", 607>>, <<"38_4", 609>>, <<"38_10", 610>>,
      <<"38_14", 611>>, <<"38_15", 612>>, <<"38_21", 613>>,
      <<"38_12", 614>>, <<"38_22", 615>>, <<"39_10", 617>>,
      <<"39_23", 618>>, <<"39_24", 619>>, <<"39_12", 620>>,
      <<"39_22", 621>>, <<"40_10", 623>>, <<"40_23", 624>>,
      <<"40_24", 625>>, <<"40_12", 626>>, <<"40_22", 627>>>>

\* _set_stoichs: the right-hand side of the assignment to _stoichs[key],
\* evaluated over the working parameters p and the dict s as built so far.
Coef(key, s, p) ==
    CASE key = "1_2" -> Sub(One, Get(p, "f_SI"))
      [] key = "1_4" -> Sub(Get(p, "i_NXS"), Mul(Sub(One, Get(p, "f_SI")), Get(p, "i_NSF")))
      [] key = "1_10" -> Sub(Get(p, "i_PXS"), Mul(Sub(One, Get(p, "f_SI")), Get(p, "i_PSF")))
      [] key = "1_11" -> Get(p, "f_SI")
      [] key = "1_15" -> R(-1, 1)
      [] key = "1_12" -> Add(Mul(R(1, 14), Get(s, "1_4")), Mul(R(-3, 62), Get(s, "1_10")))
      [] key = "1_22" -> Mul(Get(p, "i_TSSXS"), Get(s, "1_15"))
      [] key = "2_2" -> Sub(One, Get(p, "f_SI"))
      [] key = "2_4" -> Sub(Get(p, "i_NXS"), Mul(Sub(One, Get(p, "f_SI")), Get(p, "i_NSF")))
      [] key = "2_10" -> Sub(Get(p, "i_PXS"), Mul(Sub(One, Get(p, "f_SI")), Get(p, "i_PSF")))
      [] key = "2_11" -> Get(p, "f_SI")
      [] key = "2_15" -> R(-1, 1)
      [] key = "2_12" -> Add(Mul(R(1, 14), Get(s, "2_4")), Mul(R(-3, 62), Get(s, "2_10")))
      [] key = "2_22" -> Mul(Get(p, "i_TSSXS"), Get(s, "2_15"))
      [] key = "3_2" -> Sub(One, Get(p, "f_SI"))
      [] key = "3_4" -> Sub(Get(p, "i_NXS"), Mul(Sub(One, Get(p, "f_SI")), Get(p, "i_NSF")))
      [] key = "3_10" -> Sub(Get(p, "i_PXS"), Mul(Sub(One, Get(p, "f_SI")), Get(p, "i_PSF")))
      [] key = "3_11" -> Get(p, "f_SI")
      [] key = "3_15" -> R(-1, 1)
      [] key = "3_12" -> Add(Mul(R(1, 14), Get(s, "3_4")), Mul(R(-3, 62), Get(s, "3_10")))
      [] key = "3_22" -> Mul(Get(p, "i_TSSXS"), Get(s, "3_15"))
      [] key = "4_2" -> Sub(One, Get(p, "f_SI"))
      [] key = "4_4" -> Sub(Get(p, "i_NXS"), Mul(Sub(One, Get(p, "f_SI")), Get(p, "i_NSF")))
      [] key = "4_10" -> Sub(Get(p, "i_PXS"), Mul(Sub(One, Get(p, "f_SI")), Get(p, "i_PSF")))
      [] key = "4_11" -> Get(p, "f_SI")
      [] key = "4_15" -> R(-1, 1)
      [] key = "4_12" -> Add(Mul(R(1, 14), Get(s, "4_4")), Mul(R(-3, 62), Get(s, "4_10")))
      [] key = "4_22" -> Mul(Get(p, "i_TSSXS"), Get(s, "4_15"))
      [] key = "5_1" -> Sub(One, Div(One, Get(p, "Y_H")))
      [] key = "5_2" -> Div(R(-1, 1), Get(p, "Y_H"))
      [] key = "5_4" -> Sub(Div(Get(p, "i_NSF"), Get(p, "Y_H")), Get(p, "i_NBM"))
      [] key = "5_10" -> Sub(Div(Get(p, "i_PSF"), Get(p, "Y_H")), Get(p, "i_PBM"))
      [] key = "5_16" -> One
      [] key = "5_12" -> Add(Mul(R(1, 14), Get(s, "5_4")), Mul(R(-3, 62), Get(s, "5_10")))
      [] key = "5_22" -> Mul(Get(p, "i_TSSBM"), Get(s, "5_16"))
      [] key = "6_1" -> Sub(One, Div(One, Get(p, "Y_H")))
      [] key = "6_3" -> Div(R(-1, 1), Get(p, "Y_H"))
      [] key = "6_4" -> Sub(Zero, Get(p, "i_NBM"))
      [] key = "6_10" -> Sub(Zero, Get(p, "i_PBM"))
      [] key = "6_16" -> One
      [] key = "6_12" -> Add(Add(Mul(R(-1, 64), Get(s, "6_3")), Mul(R(1, 14), Get(s, "6_4"))), Mul(R(-3, 62), Get(s, "6_10")))
      [] key = "6_22" -> Mul(Get(p, "i_TSSBM"), Get(s, "6_16"))
      [] key = "7_2" -> Div(R(-1, 1), Mul(Get(p, "Y_H"), Get(p, "n_G")))
      [] key = "7_4" -> Sub(Div(Get(p, "i_NSF"), Get(p, "Y_H")), Get(p, "i_NBM"))
      [] key = "7_8" -> Div(Sub(One, Mul(Get(p, "Y_H"), Get(p, "n_G"))), Mul(Mul(R(8, 7), Get(p, "Y_H")), Get(p, "n_G")))
      [] key = "7_9" -> Sub(Zero, Div(Sub(One, Mul(Get(p, "Y_H"), Get(p, "n_G"))), Mul(Mul(R(8, 7), Get(p, "Y_H")), Get(p, "n_G"))))
      [] key = "7_10" -> Sub(Div(Get(p, "i_PSF"), Get(p, "Y_H")), Get(p, "i_PBM"))
      [] key = "7_16" -> One
      [] key = "7_12" -> Add(Add(Add(Mul(R(1, 14), Get(s, "7_4")), Mul(R(-1, 14), Get(s, "7_8"))), Mul(R(-1, 14), Get(s, "7_9"))), Mul(R(-3, 62), Get(s, "7_10")))
      [] key = "7_22" -> Mul(Get(p, "i_TSSBM"), Get(s, "7_16"))
      [] key = "8_2" -> Div(R(-1, 1), Mul(Get(p, "Y_H"), Get(p, "n_G")))
      [] key = "8_4" -> Sub(Div(Get(p, "i_NSF"), Get(p, "Y_H")), Get(p, "i_NBM"))
      [] key = "8_7" -> Div(Sub(One, Mul(Get(p, "Y_H"), Get(p, "n_G"))), Mul(Mul(R(4, 7), Get(p, "Y_H")), Get(p, "n_G")))
      [] key = "8_8" -> Sub(Zero, Div(Sub(One, Mul(Get(p, "Y_H"), Get(p, "n_G"))), Mul(Mul(R(4, 7), Get(p, "Y_H")), Get(p, "n_G"))))
      [] key = "8_10" -> Sub(Div(Get(p, "i_PSF"), Get(p, "Y_H")), Get(p, "i_PBM"))
      [] key = "8_16" -> One
      [] key = "8_12" -> Add(Add(Mul(R(1, 14), Get(s, "8_4")), Mul(R(-1, 14), Get(s, "8_8"))), Mul(R(-3, 62), Get(s, "8_10")))
      [] key = "8_22" -> Mul(Get(p, "i_TSSBM"), Get(s, "8_16"))
      [] key = "9_2" -> Div(R(-1, 1), Mul(Get(p, "Y_H"), Get(p, "n_G")))
      [] key = "9_4" -> Sub(Div(Get(p, "i_NSF"), Get(p, "Y_H")), Get(p, "i_NBM"))
      [] key = "9_6" -> Div(Sub(One, Mul(Get(p, "Y_H"), Get(p, "n_G"))), Mul(Mul(R(4, 7), Get(p, "Y_H")), Get(p, "n_G")))
      [] key = "9_7" -> Sub(Zero, Div(Sub(One, Mul(Get(p, "Y_H"), Get(p, "n_G"))), Mul(Mul(R(4, 7), Get(p, "Y_H")), Get(p, "n_G"))))
      [] key = "9_10" -> Sub(Div(Get(p, "i_PSF"), Get(p, "Y_H")), Get(p, "i_PBM"))
      [] key = "9_16" -> One
      [] key = "9_12" -> Add(Mul(R(1, 14), Get(s, "9_4")), Mul(R(-3, 62), Get(s, "9_10")))
      [] key = "9_22" -> Mul(Get(p, "i_TSSBM"), Get(s, "9_16"))
      [] key = "10_2" -> Div(R(-1, 1), Mul(Get(p, "Y_H"), Get(p, "n_G")))
      [] key = "10_4" -> Sub(Div(Get(p, "i_NSF"), Get(p, "Y_H")), Get(p, "i_NBM"))
      [] key = "10_6" -> Sub(Zero, Div(Sub(One, Mul(Get(p, "Y_H"), Get(p, "n_G"))), Mul(Mul(R(4, 7), Get(p, "Y_H")), Get(p, "n_G"))))
      [] key = "10_10" -> Sub(Div(Get(p, "i_PSF"), Get(p, "Y_H")), Get(p, "i_PBM"))
      [] key = "10_13" -> Div(Sub(One, Mul(Get(p, "Y_H"), Get(p, "n_G"))), Mul(Mul(R(4, 7), Get(p, "Y_H")), Get(p, "n_G")))
      [] key = "10_16" -> One
      [] key = "10_12" -> Add(Mul(R(1, 14), Get(s, "10_4")), Mul(R(-3, 62), Get(s, "10_10")))
      [] key = "10_22" -> Mul(Get(p, "i_TSSBM"), Get(s, "10_16"))
      [] key = "11_3" -> Div(R(-1, 1), Mul(Get(p, "Y_H"), Get(p, "n_G")))
      [] key = "11_4" -> Sub(Zero, Get(p, "i_NBM"))
      [] key = "11_8" -> Div(Sub(One, Mul(Get(p, "Y_H"), Get(p, "n_G"))), Mul(Mul(R(8, 7), Get(p, "Y_H")), Get(p, "n_G")))
      [] key = "11_9" -> Sub(Zero, Div(Sub(One, Mul(Get(p, "Y_H"), Get(p, "n_G"))), Mul(Mul(R(8, 7), Get(p, "Y_H")), Get(p, "n_G"))))
      [] key = "11_10" -> Sub(Zero, Get(p, "i_PBM"))
      [] key = "11_16" -> One
      [] key = "11_12" -> Add(Add(Add(Add(Mul(R(-1, 64), Get(s, "11_3")), Mul(R(1, 14), Get(s, "11_4"))), Mul(R(-1, 14), Get(s, "11_8"))), Mul(R(-1, 14), Get(s, "11_9"))), Mul(R(-3, 62), Get(s, "11_10")))
      [] key = "11_22" -> Mul(Get(p, "i_TSSBM"), Get(s, "11_16"))
      [] key = "12_3" -> Div(R(-1, 1), Mul(Get(p, "Y_H"), Get(p, "n_G")))
      [] key = "12_4" -> Sub(Zero, Get(p, "i_NBM"))
      [] key = "12_7" -> Div(Sub(One, Mul(Get(p, "Y_H"), Get(p, "n_G"))), Mul(Mul(R(4, 7), Get(p, "Y_H")), Get(p, "n_G")))
      [] key = "12_8" -> Sub(Zero, Div(Sub(One, Mul(Get(p, "Y_H"), Get(p, "n_G"))), Mul(Mul(R(4, 7), Get(p, "Y_H")), Get(p, "n_G"))))
      [] key = "12_10" -> Sub(Zero, Get(p, "i_PBM"))
      [] key = "12_16" -> One
      [] key = "12_12" -> Add(Add(Add(Mul(R(-1, 64), Get(s, "12_3")), Mul(R(1, 14), Get(s, "12_4"))), Mul(R(-1, 14), Get(s, "12_8"))), Mul(R(-3, 62), Get(s, "12_10")))
      [] key = "12_22" -> Mul(Get(p, "i_TSSBM"), Get(s, "12_16"))
      [] key = "13_3" -> Div(R(-1, 1), Mul(Get(p, "Y_H"), Get(p, "n_G")))
      [] key = "13_4" -> Sub(Zero, Get(p, "i_NBM"))
      [] key = "13_6" -> Div(Sub(One, Mul(Get(p, "Y_H"), Get(p, "n_G"))), Mul(Mul(R(4, 7), Get(p, "Y_H")), Get(p, "n_G")))
      [] key = "13_7" -> Sub(Zero, Div(Sub(One, Mul(Get(p, "Y_H"), Get(p, "n_G"))), Mul(Mul(R(4, 7), Get(p, "Y_H")), Get(p, "n_G"))))
      [] key = "13_10" -> Sub(Zero, Get(p, "i_PBM"))
      [] key = "13_16" -> One
      [] key = "13_12" -> Add(Add(Mul(R(-1, 64), Get(s, "13_3")), Mul(R(1, 14), Get(s, "13_4"))), Mul(R(-3, 62), Get(s, "13_10")))
      [] key = "13_22" -> Mul(Get(p, "i_TSSBM"), Get(s, "13_16"))
      [] key = "14_3" -> Div(R(-1, 1), Mul(Get(p, "Y_H"), Get(p, "n_G")))
      [] key = "14_4" -> Sub(Zero, Get(p, "i_NBM"))
      [] key = "14_6" -> Sub(Zero, Div(Sub(One, Mul(Get(p, "Y_H"), Get(p, "n_G"))), Mul(Mul(R(4, 7), Get(p, "Y_H")), Get(p, "n_G"))))
      [] key = "14_10" -> Sub(Zero, Get(p, "i_PBM"))
      [] key = "14_13" -> Div(Sub(One, Mul(Get(p, "Y_H"), Get(p, "n_G"))), Mul(Mul(R(4, 7), Get(p, "Y_H")), Get(p, "n_G")))
      [] key = "14_16" -> One
      [] key = "14_12" -> Add(Add(Mul(R(-1, 64), Get(s, "14_3")), Mul(R(1, 14), Get(s, "14_4"))), Mul(R(-3, 62), Get(s, "14_10")))
      [] key = "14_22" -> Mul(Get(p, "i_TSSBM"), Get(s, "14_16"))
      [] key = "15_2" -> R(-1, 1)
      [] key = "15_3" -> One
      [] key = "15_4" -> Get(p, "i_NSF")
      [] key = "15_10" -> Get(p, "i_PSF")
      [] key = "15_12" -> Add(Add(Mul(R(-1, 64), Get(s, "15_3")), Mul(R(1, 14), Get(s, "15_4"))), Mul(R(-3, 62), Get(s, "15_10")))
      [] key = "16_4" -> Sub(Sub(Get(p, "i_NBM"), Mul(Get(p, "i_NXI"), Get(p, "f_XI"))), Mul(Sub(One, Get(p, "f_XI")), Get(p, "i_NXS")))
      [] key = "16_10" -> Sub(Sub(Get(p, "i_PBM"), Mul(Get(p, "i_PXI"), Get(p, "f_XI"))), Mul(Sub(One, Get(p, "f_XI")), Get(p, "i_PXS")))
      [] key = "16_14" -> Get(p, "f_XI")
      [] key = "16_15" -> Sub(One, Get(p, "f_XI"))
      [] key = "16_16" -> R(-1, 1)
      [] key = "16_12" -> Add(Mul(R(1, 14), Get(s, "16_4")), Mul(R(-3, 62), Get(s, "16_10")))
      [] key = "16_22" -> Add(Add(Mul(Get(p, "i_TSSXI"), Get(s, "16_14")), Mul(Get(p, "i_TSSXS"), Get(s, "16_15"))), Mul(Get(p, "i_TSSBM"), Get(s, "16_16")))
      [] key = "17_3" -> R(-1, 1)
      [] key = "17_10" -> Get(p, "Y_PO4")
      [] key = "17_18" -> Sub(Zero, Get(p, "Y_PO4"))
      [] key = "17_19" -> One
      [] key = "17_12" -> Add(Add(Mul(R(-1, 64), Get(s, "17_3")), Mul(R(-3, 62), Get(s, "17_10"))), Mul(R(-1, 31), Get(s, "17_18")))
      [] key = "17_22" -> Add(Mul(R(323, 100), Get(s, "17_18")), Mul(R(3, 5), Get(s, "17_19")))
      [] key = "18_1" -> Sub(Zero, Get(p, "Y_PHA"))
      [] key = "18_10" -> R(-1, 1)
      [] key = "18_18" -> One
      [] key = "18_19" -> Sub(Zero, Get(p, "Y_PHA"))
      [] key = "18_12" -> Add(Mul(R(-3, 62), Get(s, "18_10")), Mul(R(-1, 31), Get(s, "18_18")))
      [] key = "18_22" -> Add(Mul(R(323, 100), Get(s, "18_18")), Mul(R(3, 5), Get(s, "18_19")))
      [] key = "19_8" -> Div(Get(p, "Y_PHA"), R(8, 7))
      [] key = "19_9" -> Sub(Zero, Div(Get(p, "Y_PHA"), R(8, 7)))
      [] key = "19_10" -> R(-1, 1)
      [] key = "19_18" -> One
      [] key = "19_19" -> Sub(Zero, Get(p, "Y_PHA"))
      [] key = "19_12" -> Add(Add(Add(Mul(R(-1, 14), Get(s, "19_8")), Mul(R(-1, 14), Get(s, "19_9"))), Mul(R(-3, 62), Get(s, "19_10"))), Mul(R(-1, 31), Get(s, "19_18")))
      [] key = "19_22" -> Add(Mul(R(323, 100), Get(s, "19_18")), Mul(R(3, 5), Get(s, "19_19")))
      [] key = "20_7" -> Div(Get(p, "Y_PHA"), R(4, 7))
      [] key = "20_8" -> Sub(Zero, Div(Get(p, "Y_PHA"), R(4, 7)))
      [] key = "20_10" -> R(-1, 1)
      [] key = "20_18" -> One
      [] key = "20_19" -> Sub(Zero, Get(p, "Y_PHA"))
      [] key = "20_12" -> Add(Add(Mul(R(-1, 14), Get(s, "20_8")), Mul(R(-3, 62), Get(s, "20_10"))), Mul(R(-1, 31), Get(s, "20_18")))
      [] key = "20_22" -> Add(Mul(R(323, 100), Get(s, "20_18")), Mul(R(3, 5), Get(s, "20_19")))
      [] key = "21_6" -> Div(Get(p, "Y_PHA"), R(4, 7))
      [] key = "21_7" -> Sub(Zero, Div(Get(p, "Y_PHA"), R(4, 7)))
      [] key = "21_10" -> R(-1, 1)
      [] key = "21_18" -> One
      [] key = "21_19" -> Sub(Zero, Get(p, "Y_PHA"))
      [] key = "21_12" -> Add(Mul(R(-3, 62), Get(s, "21_10")), Mul(R(-1, 31), Get(s, "21_18")))
      [] key = "21_22" -> Add(Mul(R(323, 100), Get(s, "21_18")), Mul(R(3, 5), Get(s, "21_19")))
      [] key = "22_6" -> Sub(Zero, Div(Get(p, "Y_PHA"), R(4, 7)))
      [] key = "22_10" -> R(-1, 1)
      [] key = "22_13" -> Div(Get(p, "Y_PHA"), R(4, 7))
      [] key = "22_18" -> One
      [] key = "22_19" -> Sub(Zero, Get(p, "Y_PHA"))
      [] key = "22_12" -> Add(Mul(R(-3, 62), Get(s, "22_10")), Mul(R(-1, 31), Get(s, "22_18")))
      [] key = "22_22" -> Add(Mul(R(323, 100), Get(s, "22_18")), Mul(R(3, 5), Get(s, "22_19")))
      [] key = "23_1" -> Sub(One, Div(One, Get(p, "Y_PAO")))
      [] key = "23_4" -> Sub(Zero, Get(p, "i_NBM"))
      [] key = "23_10" -> Sub(Zero, Get(p, "i_PBM"))
      [] key = "23_17" -> One
      [] key = "23_19" -> Div(R(-1, 1), Get(p, "Y_PAO"))
      [] key = "23_12" -> Add(Mul(R(1, 14), Get(s, "23_4")), Mul(R(-3, 62), Get(s, "23_10")))
      [] key = "23_22" -> Add(Mul(Get(p, "i_TSSBM"), Get(s, "23_17")), Mul(R(3, 5), Get(s, "23_19")))
      [] key = "24_4" -> Sub(Zero, Get(p, "i_NBM"))
      [] key = "24_8" -> Div(Sub(One, Mul(Get(p, "Y_PAO"), Get(p, "n_G"))), Mul(Mul(R(8, 7), Get(p, "Y_PAO")), Get(p, "n_G")))
      [] key = "24_9" -> Sub(Zero, Div(Sub(One, Mul(Get(p, "Y_PAO"), Get(p, "n_G"))), Mul(Mul(R(8, 7), Get(p, "Y_PAO")), Get(p, "n_G"))))
      [] key = "24_10" -> Sub(Zero, Get(p, "i_PBM"))
      [] key = "24_17" -> One
      [] key = "24_19" -> Div(R(-1, 1), Get(p, "Y_PAO"))
      [] key = "24_12" -> Add(Add(Add(Mul(R(1, 14), Get(s, "24_4")), Mul(R(-1, 14), Get(s, "24_8"))), Mul(R(-1, 14), Get(s, "24_9"))), Mul(R(-3, 62), Get(s, "24_10")))
      [] key = "24_22" -> Add(Mul(Get(p, "i_TSSBM"), Get(s, "24_17")), Mul(R(3, 5), Get(s, "24_19")))
      [] key = "25_4" -> Sub(Zero, Get(p, "i_NBM"))
      [] key = "25_7" -> Div(Sub(One, Mul(Get(p, "Y_PAO"), Get(p, "n_G"))), Mul(Mul(R(4, 7), Get(p, "Y_PAO")), Get(p, "n_G")))
      [] key = "25_8" -> Sub(Zero, Div(Sub(One, Mul(Get(p, "Y_PAO"), Get(p, "n_G"))), Mul(Mul(R(4, 7), Get(p, "Y_PAO")), Get(p, "n_G"))))
      [] key = "25_10" -> Sub(Zero, Get(p, "i_PBM"))
      [] key = "25_17" -> One
      [] key = "25_19" -> Div(R(-1, 1), Get(p, "Y_PAO"))
      [] key = "25_12" -> Add(Add(Mul(R(1, 14), Get(s, "25_4")), Mul(R(-1, 14), Get(s, "25_8"))), Mul(R(-3, 62), Get(s, "25_10")))
      [] key = "25_22" -> Add(Mul(Get(p, "i_TSSBM"), Get(s, "25_17")), Mul(R(3, 5), Get(s, "25_19")))
      [] key = "26_4" -> Sub(Zero, Get(p, "i_NBM"))
      [] key = "26_6" -> Div(Sub(One, Mul(Get(p, "Y_PAO"), Get(p, "n_G"))), Mul(Mul(R(4, 7), Get(p, "Y_PAO")), Get(p, "n_G")))
      [] key = "26_7" -> Sub(Zero, Div(Sub(One, Mul(Get(p, "Y_PAO"), Get(p, "n_G"))), Mul(Mul(R(4, 7), Get(p, "Y_PAO")), Get(p, "n_G"))))
      [] key = "26_10" -> Sub(Zero, Get(p, "i_PBM"))
      [] key = "26_17" -> One
      [] key = "26_19" -> Div(R(-1, 1), Get(p, "Y_PAO"))
      [] key = "26_12" -> Add(Mul(R(1, 14), Get(s, "26_4")), Mul(R(-3, 62), Get(s, "26_10")))
      [] key = "26_22" -> Add(Mul(Get(p, "i_TSSBM"), Get(s, "26_17")), Mul(R(3, 5), Get(s, "26_19")))
      [] key = "27_4" -> Sub(Zero, Get(p, "i_NBM"))
      [] key = "27_6" -> Sub(Zero, Div(Sub(One, Mul(Get(p, "Y_PAO"), Get(p, "n_G"))), Mul(Mul(R(4, 7), Get(p, "Y_PAO")), Get(p, "n_G"))))
      [] key = "27_10" -> Sub(Zero, Get(p, "i_PBM"))
      [] key = "27_13" -> Div(Sub(One, Mul(Get(p, "Y_PAO"), Get(p, "n_G"))), Mul(Mul(R(4, 7), Get(p, "Y_PAO")), Get(p, "n_G")))
      [] key = "27_17" -> One
      [] key = "27_19" -> Div(R(-1, 1), Get(p, "Y_PAO"))
      [] key = "27_12" -> Add(Mul(R(1, 14), Get(s, "27_4")), Mul(R(-3, 62), Get(s, "27_10")))
      [] key = "27_22" -> Add(Mul(Get(p, "i_TSSBM"), Get(s, "27_17")), Mul(R(3, 5), Get(s, "27_19")))
      [] key = "28_4" -> Sub(Sub(Get(p, "i_NBM"), Mul(Get(p, "i_NXI"), Get(p, "f_XI"))), Mul(Sub(One, Get(p, "f_XI")), Get(p, "i_NXS")))
      [] key = "28_10" -> Sub(Sub(Get(p, "i_PBM"), Mul(Get(p, "i_PXI"), Get(p, "f_XI"))), Mul(Sub(One, Get(p, "f_XI")), Get(p, "i_PXS")))
      [] key = "28_14" -> Get(p, "f_XI")
      [] key = "28_15" -> Sub(One, Get(p, "f_XI"))
      [] key = "28_17" -> R(-1, 1)
      [] key = "28_12" -> Add(Mul(R(1, 14), Get(s, "28_4")), Mul(R(-3, 62), Get(s, "28_10")))
      [] key = "28_22" -> Add(Add(Mul(Get(p, "i_TSSXI"), Get(s, "28_14")), Mul(Get(p, "i_TSSXS"), Get(s, "28_15"))), Mul(Get(p, "i_TSSBM"), Get(s, "28_17")))
      [] key = "29_10" -> One
      [] key = "29_18" -> R(-1, 1)
      [] key = "29_12" -> Add(Mul(R(-3, 62), Get(s, "29_10")), Mul(R(-1, 31), Get(s, "29_18")))
      [] key = "29_22" -> Mul(R(323, 100), Get(s, "29_18"))
      [] key = "30_3" -> One
      [] key = "30_19" -> R(-1, 1)
      [] key = "30_12" -> Mul(R(-1, 64), Get(s, "30_3"))
      [] key = "30_22" -> Mul(R(3, 5), Get(s, "30_19"))
      [] key = "31_1" -> R(-8, 7)
      [] key = "31_4" -> R(-1, 1)
      [] key = "31_5" -> One
      [] key = "31_12" -> Mul(R(1, 14), Get(s, "31_4"))
      [] key = "32_1" -> Sub(Zero, Div(Sub(R(12, 7), Get(p, "Y_AOB")), Get(p, "Y_AOB")))
      [] key = "32_4" -> Sub(Zero, Get(p, "i_NBM"))
      [] key = "32_5" -> Div(R(-1, 1), Get(p, "Y_AOB"))
      [] key = "32_7" -> Div(One, Get(p, "Y_AOB"))
      [] key = "32_10" -> Sub(Zero, Get(p, "i_PBM"))
      [] key = "32_20" -> One
      [] key = "32_12" -> Add(Mul(R(1, 14), Get(s, "32_4")), Mul(R(-3, 62), Get(s, "32_10")))
      [] key = "32_22" -> Mul(Get(p, "i_TSSBM"), Get(s, "32_20"))
      [] key = "33_1" -> R(-4, 7)
      [] key = "33_7" -> R(-1, 1)
      [] key = "33_8" -> One
      [] key = "33_12" -> Mul(R(-1, 14), Get(s, "33_8"))
      [] key = "34_5" -> R(-1, 1)
      [] key = "34_6" -> R(4, 1)
      [] key = "34_7" -> R(-4, 1)
      [] key = "34_8" -> One
      [] key = "34_12" -> Mul(R(-1, 14), Get(s, "34_8"))
      [] key = "35_5" -> R(-1, 1)
      [] key = "35_6" -> R(2, 1)
      [] key = "35_8" -> R(-1, 1)
      [] key = "35_12" -> Mul(R(-1, 14), Get(s, "35_8"))
      [] key = "36_1" -> Sub(Zero, Div(Sub(R(8, 7), Get(p, "Y_NOB")), Get(p, "Y_NOB")))
      [] key = "36_4" -> Sub(Zero, Get(p, "i_NBM"))
      [] key = "36_8" -> Div(R(-1, 1), Get(p, "Y_NOB"))
      [] key = "36_9" -> Div(One, Get(p, "Y_NOB"))
      [] key = "36_10" -> Sub(Zero, Get(p, "i_PBM"))
      [] key = "36_21" -> One
      [] key = "36_12" -> Add(Add(Add(Mul(R(1, 14), Get(s, "36_4")), Mul(R(-1, 14), Get(s, "36_8"))), Mul(R(-1, 14), Get(s, "36_9"))), Mul(R(-3, 62), Get(s, "36_10")))
      [] key = "36_22" -> Mul(Get(p, "i_TSSBM"), Get(s, "36_21"))
      [] key = "37_4" -> Sub(Sub(Get(p, "i_NBM"), Mul(Get(p, "i_NXI"), Get(p, "f_XI"))), Mul(Sub(One, Get(p, "f_XI")), Get(p, "i_NXS")))
      [] key = "37_10" -> Sub(Sub(Get(p, "i_PBM"), Mul(Get(p, "i_PXI"), Get(p, "f_XI"))), Mul(Sub(One, Get(p, "f_XI")), Get(p, "i_PXS")))
      [] key = "37_14" -> Get(p, "f_XI")
      [] key = "37_15" -> Sub(One, Get(p, "f_XI"))
      [] key = "37_20" -> R(-1, 1)
      [] key = "37_12" -> Add(Mul(R(1, 14), Get(s, "37_4")), Mul(R(-3, 62), Get(s, "37_10")))
      [] key = "37_22" -> Add(Add(Mul(Get(p, "i_TSSXI"), Get(s, "37_14")), Mul(Get(p, "i_TSSXS"), Get(s, "37_15"))), Mul(Get(p, "i_TSSBM"), Get(s, "37_20")))
      [] key = "38_4" -> Sub(Sub(Get(p, "i_NBM"), Mul(Get(p, "i_NXI"), Get(p, "f_XI"))), Mul(Sub(One, Get(p, "f_XI")), Get(p, "i_NXS")))
      [] key = "38_10" -> Sub(Sub(Get(p, "i_PBM"), Mul(Get(p, "i_PXI"), Get(p, "f_XI"))), Mul(Sub(One, Get(p, "f_XI")), Get(p, "i_PXS")))
      [] key = "38_14" -> Get(p, "f_XI")
      [] key = "38_15" -> Sub(One, Get(p, "f_XI"))
      [] key = "38_21" -> R(-1, 1)
      [] key = "38_12" -> Add(Mul(R(1, 14), Get(s, "38_4")), Mul(R(-3, 62), Get(s, "38_10")))
      [] key = "38_22" -> Add(Add(Mul(Get(p, "i_TSSXI"), Get(s, "38_14")), Mul(Get(p, "i_TSSXS"), Get(s, "38_15"))), Mul(Get(p, "i_TSSBM"), Get(s, "38_21")))
      [] key = "39_10" -> R(-1, 1)
      [] key = "39_23" -> R(-69, 20)
      [] key = "39_24" -> R(487, 100)
      [] key = "39_12" -> Mul(R(-3, 62), Get(s, "39_10"))
      [] key = "39_22" -> Add(Mul(One, Get(s, "39_23")), Mul(One, Get(s, "39_24")))
      [] key = "40_10" -> One
      [] key = "40_23" -> R(69, 20)
      [] key = "40_24" -> R(-487, 100)
      [] key = "40_12" -> Mul(R(-3, 62), Get(s, "40_10"))
      [] key = "40_22" -> Add(Mul(One, Get(s, "40_23")), Mul(One, Get(s, "40_24")))

\* The assignments lo..hi of _set_stoichs, in order, started from the outcome
\* st of the assignments before them.
RECURSIVE set_stoichs_range(_, _, _, _)
set_stoichs_range(lo, hi, st, p) ==
    IF st.raised # "none" THEN st
    ELSE IF lo = hi
    THEN store(st, StoichAssignments[lo][1],
               Coef(StoichAssignments[lo][1], st.d, p), StoichAssignments[lo][2])
    ELSE set_stoichs_range((lo + hi) \div 2 + 1, hi,
                           set_stoichs_range(lo, (lo + hi) \div 2, st, p), p)

\* Variant of _set_stoichs: the oxygen coefficient of process 5 is
\* 1 - Y_H in place of 1 - 1/Y_H.
set_stoichs_oxygen_by_yield(s, p) ==
    store(set_stoichs_range(1, Len(StoichAssignments),
                            [d |-> s, raised |-> "none", line |-> 0], p),
          "5_1", Sub(One, Get(p, "Y_H")), 352)

\* Variant of _set_stoichs: an assignment stores only a coefficient the
\* matrix does not hold yet, so a rebuild keeps what the previous build left.
set_stoichs_keeping_leftovers(s, p) ==
    [d |-> s @@ set_stoichs_range(1, Len(StoichAssignments),
                                  [d |-> EmptyDict, raised |-> "none",
                                   line |-> 0], p).d,
     raised |-> "none", line |-> 0]

\* Variant of _set_stoichs: the alkalinity coefficient of process 11 leaves
\* out the acetate the row consumes.
set_stoichs_alkalinity_without_acetate(s, p) ==
    LET st == set_stoichs_range(1, Len(StoichAssignments),
                                [d |-> s, raised |-> "none", line |-> 0], p)
    IN  IF st.raised # "none" THEN st
        ELSE store(st, "11_12",
                   Sub(st.d["11_12"], Mul(R(-1, 64), st.d["11_3"])), 410)

\* Variant of _set_stoichs: the TSS coefficient of process 16 counts the
\* biomass lost and leaves out the X_I and X_S formed.
set_stoichs_TSS_of_biomass_only(s, p) ==
    LET st == set_stoichs_range(1, Len(StoichAssignments),
                                [d |-> s, raised |-> "none", line |-> 0], p)
    IN  IF st.raised # "none" THEN st
        ELSE store(st, "16_22", Mul(Get(p, "i_TSSBM"), st.d["16_16"]), 452)

set_stoichs(s, p) ==
    set_stoichs_range(1, Len(StoichAssignments),
                      [d |-> s, raised |-> "none", line |-> 0], p)

\* _set_stoichs: the keys of _params its right-hand sides read.
set_stoichs_reads ==
    {"f_SI", "i_NXS", "i_NSF", "i_PXS", "i_PSF", "i_TSSXS", "Y_H", "i_NBM",
     "i_PBM", "i_TSSBM", "n_G", "i_NXI", "f_XI", "i_PXI", "i_TSSXI", "Y_PO4",
     "Y_PHA", "Y_PAO", "Y_AOB", "Y_NOB"}

\* _set_stoichs: the process (row) of each assignment, in source order.
StoichProcess ==
    <<1, 1, 1, 1, 1, 1, 1, 2, 2, 2, 2, 2, 2, 2, 3, 3, 3, 3, 3, 3, 3, 4,
      4, 4, 4, 4, 4, 4, 5, 5, 5, 5, 5, 5, 5, 6, 6, 6, 6, 6, 6, 6, 7, 7,
      7, 7, 7, 7, 7, 7, 8, 8, 8, 8, 8, 8, 8, 8, 9, 9, 9, 9, 9, 9, 9, 9,
      10, 10, 10, 10, 10, 10, 10, 10, 11, 11, 11, 11, 11, 11, 11, 11,
      12, 12, 12, 12, 12, 12, 12, 12, 13, 13, 13, 13, 13, 13, 13, 13,
      14, 14, 14, 14, 14, 14, 14, 14, 15, 15, 15, 15, 15, 16, 16, 16,
      16, 16, 16, 16, 17, 17, 17, 17, 17, 17, 18, 18, 18, 18, 18, 18,
      19, 19, 19, 19, 19, 19, 19, 20, 20, 20, 20, 20, 20, 20, 21, 21,
      21, 21, 21, 21, 21, 22, 22, 22, 22, 22, 22, 22, 23, 23, 23, 23,
      23, 23, 23, 24, 24, 24, 24, 24, 24, 24, 24, 25, 25, 25, 25, 25,
      25, 25, 25, 26, 26, 26, 26, 26, 26, 26, 26, 27, 27, 27, 27, 27,
      27, 27, 27, 28, 28, 28, 28, 28, 28, 28, 29, 29, 29, 29, 30, 30,
      30, 30, 31, 31, 31, 31, 32, 32, 32, 32, 32, 32, 32, 32, 33, 33,
      33, 33, 34, 34, 34, 34, 34, 35, 35, 35, 35, 36, 36, 36, 36, 36,
      36, 36, 36, 37, 37, 37, 37, 37, 37, 37, 38, 38, 38, 38, 38, 38,
      38, 39, 39, 39, 39, 39, 40, 40, 40, 40, 40>>

\* _set_stoichs: the keys of _stoichs each right-hand side reads, in source
\* order of the assignments.
StoichReads ==
    <<{}, {}, {}, {}, {}, {"1_4", "1_10"}, {"1_15"}, {}, {}, {}, {}, {},
      {"2_4", "2_10"}, {"2_15"}, {}, {}, {}, {}, {}, {"3_4", "3_10"},
      {"3_15"}, {}, {}, {}, {}, {}, {"4_4", "4_10"}, {"4_15"}, {}, {},
      {}, {}, {}, {"5_4", "5_10"}, {"5_16"}, {}, {}, {}, {}, {}, {"6_3",
      "6_4", "6_10"}, {"6_16"}, {}, {}, {}, {}, {}, {}, {"7_4", "7_8",
      "7_9", "7_10"}, {"7_16"}, {}, {}, {}, {}, {}, {}, {"8_4", "8_8",
      "8_10"}, {"8_16"}, {}, {}, {}, {}, {}, {}, {"9_4", "9_10"},
      {"9_16"}, {}, {}, {}, {}, {}, {}, {"10_4", "10_10"}, {"10_16"},
      {}, {}, {}, {}, {}, {}, {"11_3", "11_4", "11_8", "11_9", "11_10"},
      {"11_16"}, {}, {}, {}, {}, {}, {}, {"12_3", "12_4", "12_8",
      "12_10"}, {"12_16"}, {}, {}, {}, {}, {}, {}, {"13_3", "13_4",
      "13_10"}, {"13_16"}, {}, {}, {}, {}, {}, {}, {"14_3", "14_4",
      "14_10"}, {"14_16"}, {}, {}, {}, {}, {"15_3", "15_4", "15_10"},
      {}, {}, {}, {}, {}, {"16_4", "16_10"}, {"16_14", "16_15",
      "16_16"}, {}, {}, {}, {}, {"17_3", "17_10", "17_18"}, {"17_18",
      "17_19"}, {}, {}, {}, {}, {"18_10", "18_18"}, {"18_18", "18_19"},
      {}, {}, {}, {}, {}, {"19_8", "19_9", "19_10", "19_18"}, {"19_18",
      "19_19"}, {}, {}, {}, {}, {}, {"20_8", "20_10", "20_18"},
      {"20_18", "20_19"}, {}, {}, {}, {}, {}, {"21_10", "21_18"},
      {"21_18", "21_19"}, {}, {}, {}, {}, {}, {"22_10", "22_18"},
      {"22_18", "22_19"}, {}, {}, {}, {}, {}, {"23_4", "23_10"},
      {"23_17", "23_19"}, {}, {}, {}, {}, {}, {}, {"24_4", "24_8",
      "24_9", "24_10"}, {"24_17", "24_19"}, {}, {}, {}, {}, {}, {},
      {"25_4", "25_8", "25_10"}, {"25_17", "25_19"}, {}, {}, {}, {}, {},
      {}, {"26_4", "26_10"}, {"26_17", "26_19"}, {}, {}, {}, {}, {}, {},
      {"27_4", "27_10"}, {"27_17", "27_19"}, {}, {}, {}, {}, {},
      {"28_4", "28_10"}, {"28_14", "28_15", "28_17"}, {}, {}, {"29_10",
      "29_18"}, {"29_18"}, {}, {}, {"30_3"}, {"30_19"}, {}, {}, {},
      {"31_4"}, {}, {}, {}, {}, {}, {}, {"32_4", "32_10"}, {"32_20"},
      {}, {}, {}, {"33_8"}, {}, {}, {}, {}, {"34_8"}, {}, {}, {},
      {"35_8"}, {}, {}, {}, {}, {}, {}, {"36_4", "36_8", "36_9",
      "36_10"}, {"36_21"}, {}, {}, {}, {}, {}, {"37_4", "37_10"},
      {"37_14", "37_15", "37_20"}, {}, {}, {}, {}, {}, {"38_4",
      "38_10"}, {"38_14", "38_15", "38_21"}, {}, {}, {}, {"39_10"},
      {"39_23", "39_24"}, {}, {}, {}, {"40_10"}, {"40_23", "40_24"}>>

\* _reaction_rate: Ka * 10**pH + 1 with temp = 20 and pH = 7, that is
\* exp(-2300 / 293.15) * 10**7 + 1 = 3914.87..., to one decimal.
KaTerm == R(39149, 10)

\* _reaction_rate: the concentration of HNO2.
S_HNO2(comps) == Mul(Div(Item(comps, 7), KaTerm), R(47, 14))

\* The literal 10e-12 of _reaction_rate, which is below the resolution of the
\* integers the rationals are built from; the smallest kept magnitude stands
\* for it.
TenEMinus12 == R(1, 1000000000)

\* _reaction_rate: the right-hand side of the assignment to _monods[i].
MonodTerm(i, comps, p) ==
    CASE i = 0 -> monod(Item(comps, 0), Get(p, "K_O2_H"))
      [] i = 1 -> monod(Div(Item(comps, 14), Item(comps, 15)), Get(p, "K_X_H"))
      [] i = 2 -> monod(Get(p, "K_O2_H"), Item(comps, 0))
      [] i = 3 -> monod(Item(comps, 8), Get(p, "K_NO3_H"))
      [] i = 4 -> monod(Item(comps, 7), Get(p, "K_NO2_H"))
      [] i = 5 -> monod(Get(p, "K_NO2_H"), Add(Item(comps, 7), Item(comps, 8)))
      [] i = 6 -> monod(Item(comps, 1), Get(p, "K_F"))
      [] i = 7 -> monod(Item(comps, 1), Item(comps, 2))
      [] i = 8 -> monod(Item(comps, 0), Get(p, "K_O2"))
      [] i = 9 -> monod(Item(comps, 3), Get(p, "K_NH4"))
      [] i = 10 -> monod(Item(comps, 9), Get(p, "K_P"))
      [] i = 11 -> monod(Item(comps, 11), Get(p, "K_ALK"))
      [] i = 12 -> monod(Item(comps, 2), Get(p, "K_A"))
      [] i = 13 -> monod(Item(comps, 2), Item(comps, 1))
      [] i = 14 -> monod(Get(p, "K_O2"), Item(comps, 0))
      [] i = 15 -> monod(Item(comps, 1), Get(p, "K_S3"))
      [] i = 16 -> monod(Item(comps, 7), Get(p, "K_NO2_Den"))
      [] i = 17 -> monod(Get(p, "K_OH3"), Item(comps, 0))
      [] i = 18 -> monod(Item(comps, 1), Get(p, "K_S4"))
      [] i = 19 -> monod(Item(comps, 6), Add(Get(p, "K_NO_Den"), Div(Sq(Item(comps, 6)), Get(p, "K_I4NO"))))
      [] i = 20 -> monod(Get(p, "K_OH4"), Item(comps, 0))
      [] i = 21 -> monod(Item(comps, 1), Get(p, "K_S5"))
      [] i = 22 -> monod(Item(comps, 5), Get(p, "K_N2O_Den"))
      [] i = 23 -> monod(Get(p, "K_OH5"), Item(comps, 0))
      [] i = 24 -> monod(Item(comps, 2), Get(p, "K_S3"))
      [] i = 25 -> monod(Item(comps, 2), Get(p, "K_S4"))
      [] i = 26 -> monod(Item(comps, 2), Get(p, "K_S5"))
      [] i = 27 -> monod(Get(p, "K_NO2"), Add(Item(comps, 7), Item(comps, 8)))
      [] i = 28 -> monod(Item(comps, 1), Get(p, "K_fe_H"))
      [] i = 29 -> monod(Item(comps, 2), Get(p, "K_A_P"))
      [] i = 30 -> monod(Item(comps, 11), Get(p, "K_ALK_P"))
      [] i = 31 -> monod(Div(Item(comps, 17), Item(comps, 16)), Get(p, "K_PP_P"))
      [] i = 32 -> monod(Item(comps, 0), Get(p, "K_O2_P"))
      [] i = 33 -> monod(Item(comps, 9), Get(p, "K_P_P"))
      [] i = 34 -> monod(Div(Item(comps, 18), Item(comps, 16)), Get(p, "K_PHA_P"))
      [] i = 35 -> monod(Sub(Get(p, "K_MAX_P"), Div(Item(comps, 17), Item(comps, 16))), Get(p, "K_IPP_P"))
      [] i = 36 -> monod(Item(comps, 8), Get(p, "K_NO3_P"))
      [] i = 37 -> monod(Get(p, "K_O2_P"), Item(comps, 0))
      [] i = 38 -> monod(Item(comps, 0), Get(p, "K_O2_AOB1"))
      [] i = 39 -> monod(Item(comps, 3), Get(p, "K_NH4_AOB"))
      [] i = 40 -> monod(Item(comps, 0), Get(p, "K_O2_AOB2"))
      [] i = 41 -> monod(Item(comps, 4), Get(p, "K_NH2OH_AOB"))
      [] i = 42 -> monod(Item(comps, 9), Get(p, "K_P_AOB"))
      [] i = 43 -> monod(Item(comps, 11), Get(p, "K_ALK_AOB"))
      [] i = 44 -> monod(Item(comps, 6), Get(p, "K_NO_AOB_HAO"))
      [] i = 45 -> monod(Item(comps, 6), Get(p, "K_NO_AOB_NN"))
      [] i = 46 -> monod(S_HNO2(comps), Get(p, "K_HNO2_AOB"))
      [] i = 47 -> monod(Item(comps, 0), Get(p, "K_O2_NOB"))
      [] i = 48 -> monod(Item(comps, 7), Get(p, "K_NO2_NOB"))
      [] i = 49 -> monod(Item(comps, 9), Get(p, "K_P_NOB"))
      [] i = 50 -> monod(Item(comps, 11), Get(p, "K_ALK_NOB"))
      [] i = 51 -> monod(Item(comps, 11), Get(p, "K_ALK_PR"))
      [] i = 52 -> monod(Item(comps, 8), Get(p, "K_NO3"))
      [] i = 53 -> monod(Item(comps, 3), TenEMinus12)

\* _reaction_rate: its assignments to _monods in textual order, each
\* <<index written, source line>>.
MonodLines ==
    <<<<0, 643>>, <<1, 644>>, <<2, 645>>, <<3, 646>>, <<4, 647>>,
      <<5, 648>>, <<6, 649>>, <<7, 650>>, <<8, 651>>, <<9, 652>>,
      <<10, 653>>, <<11, 654>>, <<12, 655>>, <<13, 656>>, <<14, 657>>,
      <<15, 658>>, <<16, 659>>, <<17, 660>>, <<18, 661>>, <<19, 662>>,
      <<20, 663>>, <<21, 664>>, <<22, 665>>, <<23, 666>>, <<24, 667>>,
      <<25, 668>>, <<26, 669>>, <<27, 670>>, <<28, 671>>, <<29, 672>>,
      <<30, 673>>, <<31, 674>>, <<32, 675>>, <<33, 676>>, <<34, 677>>,
      <<35, 678>>, <<36, 679>>, <<37, 680>>, <<38, 681>>, <<39, 682>>,
      <<40, 683>>, <<41, 684>>, <<42, 685>>, <<43, 686>>, <<44, 687>>,
      <<45, 688>>, <<46, 695>>, <<47, 697>>, <<48, 698>>, <<49, 699>>,
      <<50, 700>>, <<51, 701>>, <<52, 704>>, <<53, 705>>>>

\* _reaction_rate: the double-inhibition oxygen term.
fSO2(comps, p) ==
    Div(Item(comps, 0), Add(Add(Get(p, "K_O2_AOB_ND"), Mul(Sub(One, Mul(R(2, 1), Sqrt(Div(Get(p, "K_O2_AOB_ND"), Get(p, "K_I_O2_AOB"))))), Item(comps, 0))), Div(Sq(Item(comps, 0)), Get(p, "K_I_O2_AOB"))))

\* _reaction_rate: the right-hand side of the assignment to _rate_res[i].
RateTerm(i, comps, p, m) ==
    CASE i = 0 -> Mul(Mul(Mul(Get(p, "K_H"), Item(m, 0)), Item(m, 1)), Item(comps, 15))
      [] i = 1 -> Mul(Mul(Mul(Mul(Mul(Get(p, "K_H"), Get(p, "n_NO3_H")), Item(m, 2)), Item(m, 3)), Item(m, 1)), Item(comps, 15))
      [] i = 2 -> Mul(Mul(Mul(Mul(Mul(Get(p, "K_H"), Get(p, "n_NO2_H")), Item(m, 2)), Item(m, 4)), Item(m, 1)), Item(comps, 15))
      [] i = 3 -> Mul(Mul(Mul(Mul(Mul(Get(p, "K_H"), Get(p, "n_fe_H")), Item(m, 2)), Item(m, 5)), Item(m, 1)), Item(comps, 15))
      [] i = 4 -> Mul(Mul(Mul(Mul(Mul(Mul(Mul(Get(p, "mu_H"), Item(m, 6)), Item(m, 7)), Item(m, 8)), Item(m, 9)), Item(m, 10)), Item(m, 11)), Item(comps, 15))
      [] i = 5 -> Mul(Mul(Mul(Mul(Mul(Mul(Mul(Get(p, "mu_H"), Item(m, 12)), Item(m, 13)), Item(m, 8)), Item(m, 9)), Item(m, 10)), Item(m, 11)), Item(comps, 15))
      [] i = 6 -> Mul(Mul(Mul(Mul(Mul(Mul(Mul(Mul(Mul(Get(p, "mu_H"), Get(p, "n_NO3_D")), Item(m, 6)), Item(m, 7)), Item(m, 14)), Item(m, 52)), Item(m, 9)), Item(m, 10)), Item(m, 11)), Item(comps, 15))
      [] i = 7 -> Mul(Mul(Mul(Mul(Mul(Mul(Mul(Mul(Mul(Get(p, "mu_H"), Get(p, "n_G3")), Item(m, 15)), Item(m, 7)), Item(m, 16)), Item(m, 17)), Item(m, 9)), Item(m, 10)), Item(m, 11)), Item(comps, 15))
      [] i = 8 -> Mul(Mul(Mul(Mul(Mul(Mul(Mul(Mul(Mul(Get(p, "mu_H"), Get(p, "n_G4")), Item(m, 18)), Item(m, 7)), Item(m, 19)), Item(m, 20)), Item(m, 9)), Item(m, 10)), Item(m, 11)), Item(comps, 15))
      [] i = 9 -> Mul(Mul(Mul(Mul(Mul(Mul(Mul(Mul(Mul(Get(p, "mu_H"), Get(p, "n_G5")), Item(m, 21)), Item(m, 7)), Item(m, 22)), Item(m, 23)), Item(m, 9)), Item(m, 10)), Item(m, 11)), Item(comps, 15))
      [] i = 10 -> Mul(Mul(Mul(Mul(Mul(Mul(Mul(Mul(Mul(Get(p, "mu_H"), Get(p, "n_NO3_D")), Item(m, 12)), Item(m, 13)), Item(m, 14)), Item(m, 52)), Item(m, 9)), Item(m, 10)), Item(m, 11)), Item(comps, 15))
      [] i = 11 -> Mul(Mul(Mul(Mul(Mul(Mul(Mul(Mul(Mul(Get(p, "mu_H"), Get(p, "n_G3")), Item(m, 24)), Item(m, 13)), Item(m, 16)), Item(m, 17)), Item(m, 9)), Item(m, 10)), Item(m, 11)), Item(comps, 15))
      [] i = 12 -> Mul(Mul(Mul(Mul(Mul(Mul(Mul(Mul(Mul(Get(p, "mu_H"), Get(p, "n_G4")), Item(m, 25)), Item(m, 13)), Item(m, 19)), Item(m, 20)), Item(m, 9)), Item(m, 10)), Item(m, 11)), Item(comps, 15))
      [] i = 13 -> Mul(Mul(Mul(Mul(Mul(Mul(Mul(Mul(Mul(Get(p, "mu_H"), Get(p, "n_G5")), Item(m, 26)), Item(m, 13)), Item(m, 22)), Item(m, 23)), Item(m, 9)), Item(m, 10)), Item(m, 11)), Item(comps, 15))
      [] i = 14 -> Mul(Mul(Mul(Mul(Mul(Get(p, "q_fe"), Item(m, 14)), Item(m, 27)), TypeError), Item(m, 11)), Item(comps, 15))
      [] i = 15 -> Mul(Get(p, "b_H"), Item(comps, 15))
      [] i = 16 -> Mul(Mul(Mul(Mul(Get(p, "q_PHA"), Item(m, 29)), Item(m, 30)), Item(m, 31)), Item(comps, 16))
      [] i = 17 -> Mul(Mul(Mul(Mul(Mul(Mul(Get(p, "q_PP"), Item(m, 32)), Item(m, 33)), Item(m, 30)), Item(m, 34)), Item(m, 35)), Item(comps, 16))
      [] i = 18 -> Mul(Mul(Mul(Mul(Mul(Mul(Mul(Mul(Get(p, "q_PP"), Get(p, "n_NO3_P")), Item(m, 36)), Item(m, 37)), Item(m, 33)), Item(m, 30)), Item(m, 34)), Item(m, 35)), Item(comps, 16))
      [] i = 19 -> Mul(Mul(Mul(Mul(Mul(Mul(Mul(Mul(Get(p, "q_PP"), Get(p, "n_G3")), Item(m, 16)), Item(m, 17)), Item(m, 33)), Item(m, 30)), Item(m, 34)), Item(m, 35)), Item(comps, 16))
      [] i = 20 -> Mul(Mul(Mul(Mul(Mul(Mul(Mul(Mul(Get(p, "q_PP"), Get(p, "n_G4")), Item(m, 19)), Item(m, 20)), Item(m, 33)), Item(m, 30)), Item(m, 34)), Item(m, 35)), Item(comps, 16))
      [] i = 21 -> Mul(Mul(Mul(Mul(Mul(Mul(Mul(Mul(Get(p, "q_PP"), Get(p, "n_G5")), Item(m, 22)), Item(m, 23)), Item(m, 33)), Item(m, 30)), Item(m, 34)), Item(m, 35)), Item(comps, 16))
      [] i = 22 -> Mul(Mul(Mul(Mul(Mul(Mul(Get(p, "mu_PAO"), Item(m, 32)), Item(m, 33)), Item(m, 9)), Item(m, 30)), Item(m, 34)), Item(comps, 16))
      [] i = 23 -> Mul(Mul(Mul(Mul(Mul(Mul(Mul(Mul(Get(p, "mu_PAO"), Get(p, "n_NO3_P")), Item(m, 36)), Item(m, 37)), Item(m, 33)), Item(m, 9)), Item(m, 30)), Item(m, 34)), Item(comps, 16))
      [] i = 24 -> Mul(Mul(Mul(Mul(Mul(Mul(Mul(Mul(Get(p, "mu_PAO"), Get(p, "n_G3")), Item(m, 16)), Item(m, 17)), Item(m, 33)), Item(m, 9)), Item(m, 30)), Item(m, 34)), Item(comps, 16))
      [] i = 25 -> Mul(Mul(Mul(Mul(Mul(Mul(Mul(Mul(Get(p, "mu_PAO"), Get(p, "n_G4")), Item(m, 19)), Item(m, 20)), Item(m, 33)), Item(m, 9)), Item(m, 30)), Item(m, 34)), Item(comps, 16))
      [] i = 26 -> Mul(Mul(Mul(Mul(Mul(Mul(Mul(Mul(Get(p, "mu_PAO"), Get(p, "n_G5")), Item(m, 22)), Item(m, 23)), Item(m, 33)), Item(m, 9)), Item(m, 30)), Item(m, 34)), Item(comps, 16))
      [] i = 27 -> Mul(Mul(Get(p, "b_PAO"), Item(m, 30)), Item(comps, 16))
      [] i = 28 -> Mul(Mul(Get(p, "b_PP"), Item(m, 30)), Item(comps, 17))
      [] i = 29 -> Mul(Mul(Get(p, "b_PHA"), Item(m, 30)), Item(comps, 18))
      [] i = 30 -> Mul(Mul(Mul(Get(p, "q_AOB_AMO"), Item(m, 38)), Item(m, 39)), Item(comps, 19))
      [] i = 31 -> Mul(Mul(Mul(Mul(Mul(Mul(Get(p, "mu_AOB_HAO"), Item(m, 40)), Item(m, 41)), Item(m, 53)), Item(m, 42)), Item(m, 43)), Item(comps, 19))
      [] i = 32 -> Mul(Mul(Mul(Get(p, "q_AOB_HAO"), Item(m, 40)), Item(m, 44)), Item(comps, 19))
      [] i = 33 -> Mul(Mul(Mul(Get(p, "q_AOB_N2O_NN"), Item(m, 41)), Item(m, 45)), Item(comps, 19))
      [] i = 34 -> Mul(Mul(Mul(Mul(Get(p, "q_AOB_N2O_ND"), Item(m, 41)), Item(m, 46)), fSO2(comps, p)), Item(comps, 19))
      [] i = 35 -> Mul(Mul(Mul(Mul(Mul(Get(p, "mu_NOB"), Item(m, 47)), Item(m, 48)), Item(m, 49)), Item(m, 50)), Item(comps, 20))
      [] i = 36 -> Mul(Get(p, "b_AOB"), Item(comps, 19))
      [] i = 37 -> Mul(Get(p, "b_NOB"), Item(comps, 20))
      [] i = 38 -> Mul(Mul(Get(p, "k_PRE"), Item(comps, 9)), Item(comps, 22))
      [] i = 39 -> Mul(Mul(Get(p, "k_RED"), Item(m, 51)), Item(comps, 23))

\* _reaction_rate: its assignments to _rate_res in textual order, each
\* <<index written, source line>>.
RateLines ==
    <<<<0, 708>>, <<1, 709>>, <<2, 710>>, <<3, 711>>, <<4, 712>>,
      <<5, 713>>, <<6, 714>>, <<7, 715>>, <<8, 716>>, <<9, 717>>,
      <<10, 718>>, <<11, 719>>, <<12, 720>>, <<13, 721>>, <<14, 722>>,
      <<15, 723>>, <<16, 724>>, <<17, 725>>, <<18, 726>>, <<19, 727>>,
      <<20, 728>>, <<21, 729>>, <<22, 730>>, <<23, 731>>, <<24, 732>>,
      <<25, 733>>, <<26, 734>>, <<27, 735>>, <<28, 736>>, <<29, 737>>,
      <<30, 738>>, <<31, 739>>, <<32, 740>>, <<33, 741>>, <<34, 745>>,
      <<35, 747>>, <<36, 748>>, <<37, 749>>, <<38, 750>>, <<39, 751>>>>

\* The assignments lo..hi to _monods, in order, started from the outcome st of
\* the assignments before them.
RECURSIVE run_monods(_, _, _, _, _)
run_monods(lo, hi, st, comps, p) ==
    IF st.raised # "none" THEN st
    ELSE IF lo = hi
    THEN store_item(st, MonodLines[lo][1],
                    MonodTerm(MonodLines[lo][1], comps, p), MonodLines[lo][2])
    ELSE run_monods((lo + hi) \div 2 + 1, hi,
                    run_monods(lo, (lo + hi) \div 2, st, comps, p), comps, p)

\* The assignments lo..hi to _rate_res, in order.
RECURSIVE run_rates(_, _, _, _, _, _)
run_rates(lo, hi, st, comps, p, m) ==
    IF st.raised # "none" THEN st
    ELSE IF lo = hi
    THEN store_item(st, RateLines[lo][1],
                    RateTerm(RateLines[lo][1], comps, p, m), RateLines[lo][2])
    ELSE run_rates((lo + hi) \div 2 + 1, hi,
                   run_rates(lo, (lo + hi) \div 2, st, comps, p, m), comps, p, m)

\* _reaction_rate, lines 708-753: the rates, computed from the Monod terms
\* that the assignments to _monods (outcome a) left.
reaction_rate_rates(a, b) ==
    [monods |-> a.l, rate_res |-> b.l, raised |-> b.raised, line |-> b.line]

\* _reaction_rate after its assignments to _monods ended with outcome a.
reaction_rate_monods(a, comps, p, r) ==
    IF a.raised # "none"
    THEN [monods |-> a.l, rate_res |-> r, raised |-> a.raised, line |-> a.line]
    ELSE reaction_rate_rates(a,
             run_rates(1, Len(RateLines),
                       [l |-> r, raised |-> "none", line |-> 0], comps, p, a.l))

\* _reaction_rate(comps) on a model whose working parameters are p and whose
\* lists _monods and _rate_res hold m and r: the lists it leaves and the
\* exception (if any) it raises.
reaction_rate(comps, p, m, r) ==
    reaction_rate_monods(
        run_monods(1, Len(MonodLines),
                   [l |-> m, raised |-> "none", line |-> 0], comps, p),
        comps, p, r)

\* _rate0_S_O2 .. _rate23_X_MeP: for each component 0..23 (at position
\* component + 1) the terms of its overall process rate in textual order,
\* each <<key of _stoichs, index of _rate_res>>.
NetTerms ==
    <<<<<<"5_1", 4>>, <<"6_1", 5>>, <<"18_1", 17>>, <<"23_1", 22>>,
        <<"31_1", 30>>, <<"32_1", 31>>, <<"33_1", 32>>, <<"36_1", 35>>>>,
      <<<<"1_2", 0>>, <<"2_2", 1>>, <<"3_2", 2>>, <<"4_2", 3>>,
        <<"5_2", 4>>, <<"7_2", 6>>, <<"8_2", 7>>, <<"9_2", 8>>,
        <<"10_2", 9>>, <<"15_2", 14>>>>,
      <<<<"6_3", 5>>, <<"11_3", 10>>, <<"12_3", 11>>, <<"13_3", 12>>,
        <<"14_3", 13>>, <<"15_3", 14>>, <<"17_3", 16>>, <<"30_3", 29>>>>,
      <<<<"1_4", 0>>, <<"2_4", 1>>, <<"3_4", 2>>, <<"4_4", 3>>,
        <<"5_4", 4>>, <<"6_4", 5>>, <<"7_4", 6>>, <<"8_4", 7>>,
        <<"9_4", 8>>, <<"10_4", 9>>, <<"11_4", 10>>, <<"12_4", 11>>,
        <<"13_4", 12>>, <<"14_4", 13>>, <<"15_4", 14>>, <<"16_4", 15>>,
        <<"23_4", 22>>, <<"24_4", 23>>, <<"25_4", 24>>, <<"26_4", 25>>,
        <<"27_4", 26>>, <<"28_4", 27>>, <<"31_4", 30>>, <<"32_4", 31>>,
        <<"36_4", 35>>, <<"37_4", 36>>, <<"38_4", 37>>>>,
      <<<<"31_5", 30>>, <<"32_5", 31>>, <<"34_5", 33>>, <<"35_5", 34>>>>,
      <<<<"9_6", 8>>, <<"10_6", 9>>, <<"13_6", 12>>, <<"14_6", 13>>,
        <<"21_6", 20>>, <<"22_6", 21>>, <<"26_6", 25>>, <<"27_6", 26>>,
        <<"34_6", 33>>, <<"35_6", 34>>>>,
      <<<<"8_7", 7>>, <<"9_7", 8>>, <<"12_7", 11>>, <<"13_7", 12>>,
        <<"20_7", 19>>, <<"21_7", 20>>, <<"25_7", 24>>, <<"26_7", 25>>,
        <<"32_7", 31>>, <<"33_7", 32>>, <<"34_7", 33>>>>,
      <<<<"7_8", 6>>, <<"8_8", 7>>, <<"11_8", 10>>, <<"12_8", 11>>,
        <<"19_8", 18>>, <<"20_8", 19>>, <<"24_8", 23>>, <<"25_8", 24>>,
        <<"33_8", 32>>, <<"34_8", 33>>, <<"35_8", 34>>, <<"36_8", 35>>>>,
      <<<<"7_9", 6>>, <<"11_9", 10>>, <<"19_9", 18>>, <<"24_9", 23>>,
        <<"36_9", 35>>>>,
      <<<<"1_10", 0>>, <<"2_10", 1>>, <<"3_10", 2>>, <<"4_10", 3>>,
        <<"5_10", 4>>, <<"6_10", 5>>, <<"7_10", 6>>, <<"8_10", 7>>,
        <<"9_10", 8>>, <<"10_10", 9>>, <<"11_10", 10>>, <<"12_10", 11>>,
        <<"13_10", 12>>, <<"14_10", 13>>, <<"15_10", 14>>, <<"16_10", 15>>,
        <<"17_10", 16>>, <<"18_10", 17>>, <<"19_10", 18>>, <<"20_10", 19>>,
        <<"21_10", 20>>, <<"22_10", 21>>, <<"23_10", 22>>, <<"24_10", 23>>,
        <<"25_10", 24>>, <<"26_10", 25>>, <<"27_10", 26>>, <<"28_10", 27>>,
        <<"29_10", 28>>, <<"32_10", 31>>, <<"36_10", 35>>, <<"37_10", 36>>,
        <<"38_10", 37>>, <<"39_10", 38>>, <<"40_10", 39>>>>,
      <<<<"1_11", 0>>, <<"2_11", 1>>, <<"3_11", 2>>, <<"4_11", 3>>>>,
      <<<<"1_12", 0>>, <<"2_12", 1>>, <<"3_12", 2>>, <<"4_12", 3>>,
        <<"5_12", 4>>, <<"6_12", 5>>, <<"7_12", 6>>, <<"8_12", 7>>,
        <<"9_12", 8>>, <<"10_12", 9>>, <<"11_12", 10>>, <<"12_12", 11>>,
        <<"13_12", 12>>, <<"14_12", 13>>, <<"15_12", 14>>, <<"16_12", 15>>,
        <<"17_12", 16>>, <<"18_12", 17>>, <<"19_12", 18>>, <<"20_12", 19>>,
        <<"21_12", 20>>, <<"22_12", 21>>, <<"23_12", 22>>, <<"24_12", 23>>,
        <<"25_12", 24>>, <<"26_12", 25>>, <<"27_12", 26>>, <<"28_12", 27>>,
        <<"29_12", 28>>, <<"30_12", 29>>, <<"31_12", 30>>, <<"32_12", 31>>,
        <<"33_12", 32>>, <<"34_12", 33>>, <<"35_12", 34>>, <<"36_12", 35>>,
        <<"37_12", 36>>, <<"38_12", 37>>, <<"39_12", 38>>, <<"40_12", 39>>>>,
      <<<<"10_13", 9>>, <<"14_13", 13>>, <<"22_13", 21>>, <<"27_13", 26>>>>,
      <<<<"16_14", 15>>, <<"28_14", 27>>, <<"37_14", 36>>, <<"38_14", 37>>>>,
      <<<<"1_15", 0>>, <<"2_15", 1>>, <<"3_15", 2>>, <<"4_15", 3>>,
        <<"16_15", 15>>, <<"28_15", 27>>, <<"37_15", 36>>, <<"38_15", 37>>>>,
      <<<<"5_16", 4>>, <<"6_16", 5>>, <<"7_16", 6>>, <<"8_16", 7>>,
        <<"9_16", 8>>, <<"10_16", 9>>, <<"11_16", 10>>, <<"12_16", 11>>,
        <<"13_16", 12>>, <<"14_16", 13>>, <<"16_16", 15>>>>,
      <<<<"23_17", 22>>, <<"24_17", 23>>, <<"25_17", 24>>, <<"26_17", 25>>,
        <<"27_17", 26>>, <<"28_17", 27>>>>,
      <<<<"17_18", 16>>, <<"18_18", 17>>, <<"19_18", 18>>, <<"20_18", 19>>,
        <<"21_18", 20>>, <<"22_18", 21>>, <<"29_18", 28>>>>,
      <<<<"17_19", 16>>, <<"18_19", 17>>, <<"19_19", 18>>, <<"20_19", 19>>,
        <<"21_19", 20>>, <<"22_19", 21>>, <<"23_19", 22>>, <<"24_19", 23>>,
        <<"25_19", 24>>, <<"26_19", 25>>, <<"27_19", 26>>, <<"30_19", 29>>>>,
      <<<<"32_20", 31>>, <<"37_20", 36>>>>,
      <<<<"36_21", 35>>, <<"38_21", 37>>>>,
      <<<<"1_22", 0>>, <<"2_22", 1>>, <<"3_22", 2>>, <<"4_22", 3>>,
        <<"5_22", 4>>, <<"6_22", 5>>, <<"7_22", 6>>, <<"8_22", 7>>,
        <<"9_22", 8>>, <<"10_22", 9>>, <<"11_22", 10>>, <<"12_22", 11>>,
        <<"13_22", 12>>, <<"14_22", 13>>, <<"16_22", 15>>, <<"17_22", 16>>,
        <<"18_22", 17>>, <<"19_22", 18>>, <<"20_22", 19>>, <<"21_22", 20>>,
        <<"22_22", 21>>, <<"23_22", 22>>, <<"24_22", 23>>, <<"25_22", 24>>,
        <<"26_22", 25>>, <<"27_22", 26>>, <<"28_22", 27>>, <<"29_22", 28>>,
        <<"30_22", 29>>, <<"32_22", 31>>, <<"36_22", 35>>, <<"37_22", 36>>,
        <<"38_22", 37>>, <<"39_22", 38>>, <<"40_22", 39>>>>,
      <<<<"39_23", 38>>, <<"40_23", 39>>>>,
      <<<<"39_24", 38>>, <<"40_24", 39>>>>>>

\* Variant of a term of an overall process rate: the coefficient of process
\* p is multiplied by the rate of process p + 1.
net_term_of_next_process(t, s, r) ==
    Mul(Get(s, t[1]), Item(r, (t[2] + 1) % NumRates))

\* One term of an overall process rate.
net_term(t, s, r) == Mul(Get(s, t[1]), Item(r, t[2]))

\* The sum of the terms lo..hi of an overall process rate, left to right.
RECURSIVE sum_terms(_, _, _, _, _)
sum_terms(terms, lo, hi, s, r) ==
    IF lo = hi THEN net_term(terms[lo], s, r)
    ELSE Add(sum_terms(terms, lo, (lo + hi) \div 2, s, r),
             sum_terms(terms, (lo + hi) \div 2 + 1, hi, s, r))

\* _rate<c>_...(): the overall process rate of component c.
rate_of(c, s, r) == sum_terms(NetTerms[c + 1], 1, Len(NetTerms[c + 1]), s, r)

\* The key of _stoichs that holds the coefficient of component number c
\* (1..24) in process p (1..40).
StoichKey(p, c) == ToString(p) \o "_" \o ToString(c)

\* _dCdt: the source line of the statement that computes element i.
ElementLine(i) == IF i = 0 THEN 1249 ELSE 1253 + 3 * (i - 1)

\* _dCdt: element i of the list it builds.
dCdt_element(i, mo_comps, HRT, in_comps, fix_DO, DO_sat_T, s, r, kla, DO) ==
    IF i = 0
    THEN IF fix_DO \/ IsZero(DO)
         THEN Zero
         ELSE Add(Add(Div(Sub(Item(in_comps, 0), Item(mo_comps, 0)), HRT),
                      Mul(kla, Sub(DO_sat_T, Item(mo_comps, 0)))),
                  rate_of(0, s, r))
    ELSE Add(Div(Sub(Item(in_comps, i), Item(mo_comps, i)), HRT), rate_of(i, s, r))

\* _dCdt, lines 1246-1322: the list it builds.
dCdt_list(mo_comps, HRT, in_comps, fix_DO, DO_sat_T, s, r, kla, DO) ==
    [i \in 0..(NumComps - 1) |->
        dCdt_element(i, mo_comps, HRT, in_comps, fix_DO, DO_sat_T, s, r, kla, DO)]

\* The elements of a list whose evaluation raised, and the first of them.
Raising(res) == {i \in DOMAIN res : IsErr(res[i])}
FirstRaising(res) == CHOOSE i \in Raising(res) : \A j \in Raising(res) : i <= j

\* _dCdt once _reaction_rate ended with outcome rr, the retention time is HRT
\* and the list built is res.
dCdt_outcome(rr, HRT, res) ==
    IF rr.raised # "none"
    THEN [monods |-> rr.monods, rate_res |-> rr.rate_res,
          raised |-> rr.raised, line |-> rr.line, result |-> <<>>]
    ELSE IF IsErr(HRT)
    THEN [monods |-> rr.monods, rate_res |-> rr.rate_res,
          raised |-> ErrName(HRT), line |-> 1244, result |-> <<>>]
    ELSE IF Raising(res) # {}
    THEN [monods |-> rr.monods, rate_res |-> rr.rate_res,
          raised |-> ErrName(res[FirstRaising(res)]),
          line |-> ElementLine(FirstRaising(res)), result |-> <<>>]
    ELSE [monods |-> rr.monods, rate_res |-> rr.rate_res,
          raised |-> "none", line |-> 0, result |-> res]

\* _dCdt after the call of _reaction_rate at line 1241 ended with outcome rr.
dCdt_after_rates(rr, mo_comps, vol, flow, in_comps, fix_DO, DO_sat_T, s, kla, DO) ==
    dCdt_outcome(rr, Div(vol, flow),
                 dCdt_list(mo_comps, Div(vol, flow), in_comps, fix_DO, DO_sat_T,
                           s, rr.rate_res, kla, DO))

\* _dCdt(t, mo_comps, vol, flow, in_comps, fix_DO, DO_sat_T) on a model with
\* working parameters p, stoichiometry s, transfer coefficient kla, bulk
\* oxygen DO and lists m, r: the lists it leaves, the exception (if any) it
\* raises and the list it returns (<<>> when it raises).
dCdt_run(mo_comps, vol, flow, in_comps, fix_DO, DO_sat_T, p, s, kla, DO, m, r) ==
    dCdt_after_rates(reaction_rate(mo_comps, p, m, r), mo_comps, vol, flow,
                     in_comps, fix_DO, DO_sat_T, s, kla, DO)

\* _reaction_rate: the keys of _params its statements read.
reaction_rate_reads ==
    {"K_O2_H", "K_X_H", "K_NO3_H", "K_NO2_H", "K_F", "K_O2", "K_NH4", "K_P",
     "K_ALK", "K_A", "K_S3", "K_NO2_Den", "K_OH3", "K_S4", "K_NO_Den",
     "K_I4NO", "K_OH4", "K_S5", "K_N2O_Den", "K_OH5", "K_NO2", "K_fe_H",
     "K_A_P", "K_ALK_P", "K_PP_P", "K_O2_P", "K_P_P", "K_PHA_P", "K_MAX_P",
     "K_IPP_P", "K_NO3_P", "K_O2_AOB1", "K_NH4_AOB", "K_O2_AOB2",
     "K_NH2OH_AOB", "K_P_AOB", "K_ALK_AOB", "K_NO_AOB_HAO", "K_NO_AOB_NN",
     "K_HNO2_AOB", "K_O2_NOB", "K_NO2_NOB", "K_P_NOB", "K_ALK_NOB",
     "K_ALK_PR", "K_NO3", "K_H", "n_NO3_H", "n_NO2_H", "n_fe_H", "mu_H",
     "n_NO3_D", "n_G3", "n_G4", "n_G5", "q_fe", "b_H", "q_PHA", "q_PP",
     "n_NO3_P", "mu_PAO", "b_PAO", "b_PP", "b_PHA", "q_AOB_AMO",
     "mu_AOB_HAO", "q_AOB_HAO", "q_AOB_N2O_NN", "K_O2_AOB_ND", "K_I_O2_AOB",
     "q_AOB_N2O_ND", "mu_NOB", "b_AOB", "b_NOB", "k_PRE", "k_RED"}

----------------------------------------------------------------------------
(* The model instance and its operations.                                   *)

VARIABLES
    kinetics_20C,   \* _kinetics_20C: the reference kinetics at 20 degC
    params,         \* _params: the working parameters
    stoichs,        \* _stoichs: the stoichiometry, keyed "process_component"
    temperature,    \* _temperature
    bulk_DO,        \* _bulk_DO
    delta_t,        \* _delta_t
    KLa,            \* _KLa
    monods,         \* _monods
    rate_res,       \* _rate_res
    last,           \* the last call made and how it ended
    snapshot,       \* the mapping the caller holds from get_params/get_stoichs
    passed          \* the lists handed to the last call, as the call left them

vars == <<kinetics_20C, params, stoichs, temperature, bulk_DO, delta_t, KLa,
          monods, rate_res, last, snapshot, passed>>

config == <<kinetics_20C, params, stoichs, temperature, bulk_DO, delta_t, KLa>>

\* Bound on the inputs: the values passed to alter_kinetic_20C and set_KLa
\* are the halves -1/2, 0, 1/2, ..., MaxNum/2.
MaxNum == 1

Values == {R(n, 2) : n \in -1..MaxNum}
Names == {"Y_H", "bogus"}
Temps == {20, 25}
DOs == {Zero, R(2, 1)}

AllZero == ListOf(Zero, NumComps)
AllOnes == ListOf(One, NumComps)
\* DO = 2, ammonium = 30, AOB biomass = 50; PAO biomass = 20 with stored
\* polyphosphate 7, a ratio of 0.35; every other concentration 1.
Nitrifying ==
    [i \in 0..(NumComps - 1) |->
        CASE i = 0 -> R(2, 1)
          [] i = 3 -> R(30, 1)
          [] i = 16 -> R(20, 1)
          [] i = 17 -> R(7, 1)
          [] i = 19 -> R(50, 1)
          [] OTHER -> One]
StateVectors == {AllZero, AllOnes}
\* Every concentration 1 except the PAO biomass (component 16), which is 0.
NoPAO == [i \in 0..(NumComps - 1) |-> IF i = 16 THEN Zero ELSE One]
RateVectors == {Nitrifying, NoPAO, AllZero}
Flows == {Zero, R(10, 1)}
Vol == R(1000, 1)
DO_sat == R(9, 1)
SnapshotKeys == {"Y_H", "5_1"}
SnapshotValues == {Zero}

\* The record of a call: the operation, its arguments, the exception it
\* raised ("none" when it returned), the source line that raised, the
\* message it printed ("" when none) and the value it returned.
Call(op, args, raised, line, printed, result) ==
    [op |-> op, args |-> args, raised |-> raised, line |-> line,
     printed |-> printed, result |-> result]

\* Variant of dict.copy(): the dict itself is handed out, not a copy.
dict_itself(d) == [d |-> d, same_object |-> TRUE]

\* d.copy(): a new dict with the items of d, which shares nothing with d
\* (the values are floats).
dict_copy(d) == [d |-> d, same_object |-> FALSE]

\* The caller holds no mapping of the instance.
NoSnapshot == [of |-> "none", d |-> EmptyDict, same_object |-> FALSE]

\* The mapping h the caller holds, once the instance's own dicts have become
\* p and s: an object that is one of those dicts shows its new items, a copy
\* shows what it showed.
seen(h, p, s) ==
    IF h.same_object
    THEN [h EXCEPT !.d = IF h.of = "params" THEN p ELSE s]
    ELSE h

\* The caller holds no list handed to a call.
NoLists == <<>>

\* Variant of _dCdt: the DO entry of the state vector is overwritten in place
\* with the configured bulk DO.
lists_after_fixing_DO(args) == <<[args[2] EXCEPT ![0] = bulk_DO], args[5]>>

\* The lists mo_comps and in_comps after a _dCdt call with arguments args:
\* no statement of _dCdt, _reaction_rate or the net-rate functions assigns
\* to an item of either or calls a method of either, so both are as passed.
lists_after(args) == <<args[2], args[5]>>

\* update, line 97: _set_stoichs() has ended with outcome b, after
\* _set_params() ended with outcome a.
update_stoichs(a, b) ==
    [params |-> a.d, stoichs |-> b.d, raised |-> b.raised, line |-> b.line]

\* Variant of update, lines 96-97: on an instance that has a stoichiometry,
\* only the working parameters are rebuilt.
update_params_keeping_stoichs(a, s) ==
    IF a.raised = "none" /\ s = EmptyDict
    THEN update_stoichs(a, set_stoichs(s, a.d))
    ELSE [params |-> a.d, stoichs |-> s, raised |-> a.raised, line |-> a.line]

\* update, lines 96-97, once _set_params() has ended with outcome a.
update_params(a, s) ==
    IF a.raised # "none"
    THEN [params |-> a.d, stoichs |-> s, raised |-> a.raised, line |-> a.line]
    ELSE update_stoichs(a, set_stoichs(s, a.d))

\* Variant of update: on an instance that has working parameters, the
\* stoichiometry is rebuilt before the working parameters are.
update_derive_stoichs_first(p, s, k) ==
    IF p = EmptyDict THEN update_params(set_params(p, k), s)
    ELSE update_stoichs(set_params(p, k), set_stoichs(s, p))

\* update: _set_params() then _set_stoichs(), on working parameters p,
\* stoichiometry s and reference kinetics k.
update_derive(p, s, k) == update_params(set_params(p, k), s)

\* The state the constructor leaves, d being the outcome of its update.
construct(ww_temp, DO, d) ==
    /\ d.raised = "none"
    /\ kinetics_20C = set_ideal_kinetics_20C_to_defaults
    /\ params = d.params
    /\ stoichs = d.stoichs
    /\ temperature = ww_temp
    /\ bulk_DO = DO
    /\ delta_t = ww_temp - 20
    /\ KLa = KLaDefault
    /\ monods = ListOf(One, NumMonods)
    /\ rate_res = ListOf(Zero, NumRates)
    /\ last = Call("ASM2d_N2O", <<ww_temp, DO>>, "none", 0, "", <<>>)
    /\ snapshot = NoSnapshot
    /\ passed = NoLists

\* ASM2d_N2O(ww_temp, DO)
Init ==
    \E ww_temp \in Temps, DO \in DOs :
        construct(ww_temp, DO,
                  update_derive(EmptyDict, EmptyDict,
                                set_ideal_kinetics_20C_to_defaults))

\* Variant of alter_kinetic_20C: an accepted value is propagated at once to
\* the working parameters and the stoichiometry.
alter_kinetic_20C_rederiving(name, new_val) ==
    /\ IF alter_accepts(kinetics_20C, name, new_val)
       THEN /\ kinetics_20C' = Put(kinetics_20C, name, new_val)
            /\ params' = update_derive(params, stoichs, kinetics_20C').params
            /\ stoichs' = update_derive(params, stoichs, kinetics_20C').stoichs
            /\ last' = Call("alter_kinetic_20C", <<name, new_val>>, "none", 0,
                            "", <<>>)
       ELSE /\ kinetics_20C' = kinetics_20C
            /\ UNCHANGED <<params, stoichs>>
            /\ last' = Call("alter_kinetic_20C", <<name, new_val>>, "none", 0,
                            AlterErrorMessage, <<>>)
    /\ UNCHANGED <<temperature, bulk_DO, delta_t, KLa, monods, rate_res,
                   snapshot>>
    /\ passed' = NoLists

alter_kinetic_20C(name, new_val) ==
    /\ IF alter_accepts(kinetics_20C, name, new_val)
       THEN /\ kinetics_20C' = Put(kinetics_20C, name, new_val)
            /\ last' = Call("alter_kinetic_20C", <<name, new_val>>, "none", 0,
                            "", <<>>)
       ELSE /\ kinetics_20C' = kinetics_20C
            /\ last' = Call("alter_kinetic_20C", <<name, new_val>>, "none", 0,
                            AlterErrorMessage, <<>>)
    /\ UNCHANGED <<params, stoichs, temperature, bulk_DO, delta_t, KLa,
                   monods, rate_res, snapshot>>
    /\ passed' = NoLists

\* update once its two rebuilds have ended with outcome d.
update_commit(ww_temp, DO, d) ==
    /\ temperature' = ww_temp
    /\ bulk_DO' = DO
    /\ delta_t' = ww_temp - 20
    /\ params' = d.params
    /\ stoichs' = d.stoichs
    /\ last' = Call("update", <<ww_temp, DO>>, d.raised, d.line, "", <<>>)
    /\ snapshot' = seen(snapshot, d.params, d.stoichs)
    /\ passed' = NoLists
    /\ UNCHANGED <<kinetics_20C, KLa, monods, rate_res>>

update(ww_temp, DO) ==
    update_commit(ww_temp, DO, update_derive(params, stoichs, kinetics_20C))

set_KLa(kla) ==
    /\ IF KLa_accepts(kla)
       THEN /\ KLa' = kla
            /\ last' = Call("set_KLa", <<kla>>, "none", 0, "", <<>>)
       ELSE /\ KLa' = KLa
            /\ last' = Call("set_KLa", <<kla>>, "none", 0, KLaErrorMessage, <<>>)
    /\ UNCHANGED <<kinetics_20C, params, stoichs, temperature, bulk_DO,
                   delta_t, monods, rate_res, snapshot>>
    /\ passed' = NoLists

\* Variant of _dCdt: the saturation concentration it is given is stored as
\* the bulk DO.
dCdt_commit_storing_DO(args, out) ==
    /\ monods' = out.monods
    /\ rate_res' = out.rate_res
    /\ last' = Call("dCdt", args, out.raised, out.line, "", out.result)
    /\ passed' = lists_after(args)
    /\ bulk_DO' = args[7]
    /\ UNCHANGED <<kinetics_20C, params, stoichs, temperature, delta_t, KLa,
                   snapshot>>

\* _dCdt once its evaluation has ended with outcome out.
dCdt_commit(args, out) ==
    /\ monods' = out.monods
    /\ rate_res' = out.rate_res
    /\ last' = Call("dCdt", args, out.raised, out.line, "", out.result)
    /\ passed' = lists_after(args)
    /\ UNCHANGED <<config, snapshot>>

\* get_params()
get_params ==
    /\ snapshot' = [of |-> "params"] @@ dict_copy(params)
    /\ last' = Call("get_params", <<>>, "none", 0, "", params)
    /\ passed' = NoLists
    /\ UNCHANGED <<config, monods, rate_res>>

\* get_stoichs()
get_stoichs ==
    /\ snapshot' = [of |-> "stoichs"] @@ dict_copy(stoichs)
    /\ last' = Call("get_stoichs", <<>>, "none", 0, "", stoichs)
    /\ passed' = NoLists
    /\ UNCHANGED <<config, monods, rate_res>>

\* The instance's dict x (named `name`) after the caller has made the
\* mapping it holds, h, show the items d: it is changed when h is that dict.
after_caller(h, name, x, d) ==
    IF h.same_object /\ h.of = name THEN d ELSE x

\* The caller has changed the mapping it holds to the items d, by the
\* operation op with arguments args.
caller_changes(op, args, d) ==
    /\ snapshot' = [snapshot EXCEPT !.d = d]
    /\ last' = Call(op, args, "none", 0, "", <<>>)
    /\ passed' = NoLists
    /\ params' = after_caller(snapshot, "params", params, d)
    /\ stoichs' = after_caller(snapshot, "stoichs", stoichs, d)
    /\ UNCHANGED <<kinetics_20C, temperature, bulk_DO, delta_t, KLa, monods,
                   rate_res>>

\* The caller runs snapshot[key] = v on the mapping it was handed: an entry
\* is added or changed.
caller_setitem(key, v) ==
    /\ snapshot.of # "none"
    /\ caller_changes("setitem", <<key, v>>, Put(snapshot.d, key, v))

\* The caller runs del snapshot[key] on the mapping it was handed.
caller_delitem(key) ==
    /\ snapshot.of # "none"
    /\ key \in DOMAIN snapshot.d
    /\ caller_changes("delitem", <<key>>,
                      [n \in DOMAIN snapshot.d \ {key} |-> snapshot.d[n]])

dCdt(t, mo_comps, vol, flow, in_comps, fix_DO, DO_sat_T) ==
    dCdt_commit(<<t, mo_comps, vol, flow, in_comps, fix_DO, DO_sat_T>>,
                dCdt_run(mo_comps, vol, flow, in_comps, fix_DO, DO_sat_T,
                         params, stoichs, KLa, bulk_DO, monods, rate_res))

Next ==
    \/ \E name \in Names, new_val \in Values : alter_kinetic_20C(name, new_val)
    \/ \E ww_temp \in Temps, DO \in DOs : update(ww_temp, DO)
    \/ \E kla \in Values : set_KLa(kla)
    \/ \E mo_comps \in StateVectors, flow \in Flows, fix_DO \in BOOLEAN :
          dCdt(0, mo_comps, Vol, flow, AllOnes, fix_DO, DO_sat)

Spec == Init /\ [][Next]_vars

\* An instance whose rates are evaluated on the state vectors RateVectors,
\* around alter_kinetic_20C and update calls.
NextRates ==
    \/ \E name \in Names, new_val \in Values : alter_kinetic_20C(name, new_val)
    \/ \E ww_temp \in Temps, DO \in DOs : update(ww_temp, DO)
    \/ \E mo_comps \in RateVectors, flow \in Flows, fix_DO \in BOOLEAN :
          dCdt(0, mo_comps, Vol, flow, AllOnes, fix_DO, DO_sat)

SpecRates == Init /\ [][NextRates]_vars

\* A caller that takes snapshots of the working parameters and of the
\* stoichiometry and edits them, around alter_kinetic_20C and update calls on
\* an instance constructed with T = 20 and DO = 2.
InitSnapshots ==
    construct(20, R(2, 1),
              update_derive(EmptyDict, EmptyDict,
                            set_ideal_kinetics_20C_to_defaults))

NextSnapshots ==
    \/ \E name \in Names, new_val \in Values : alter_kinetic_20C(name, new_val)
    \/ update(temperature, bulk_DO)
    \/ get_params
    \/ get_stoichs
    \/ \E key \in SnapshotKeys, v \in SnapshotValues : caller_setitem(key, v)
    \/ \E key \in SnapshotKeys : caller_delitem(key)

SpecSnapshots == InitSnapshots /\ [][NextSnapshots]_vars


\* The fractions a caller overrides in the runs on the stoichiometry build:
\* the inert fraction of hydrolysis and the anoxic growth factor.
FactorNames == {"f_SI", "n_G"}

\* An instance whose fractions FactorNames are overridden, around update
\* calls.
NextFactors ==
    \/ \E name \in FactorNames, new_val \in Values :
          alter_kinetic_20C(name, new_val)
    \/ \E ww_temp \in Temps, DO \in DOs : update(ww_temp, DO)

SpecFactors == Init /\ [][NextFactors]_vars

----------------------------------------------------------------------------
(* Properties of the parameter interface (alter_kinetic_20C, update,       *)
(* set_KLa) and of _dCdt.  `last` is the record of the call that led to    *)
(* the state; in an action formula last' is the record of the call the     *)
(* step makes.                                                              *)

\* The condition under which alter_kinetic_20C(args[1], args[2]) is to be
\* rejected on reference kinetics k: the value is not positive or the name is
\* not a key.
Rejected(k, args) == ~IsPos(args[2]) \/ args[1] \notin DOMAIN k

\* A state vector in which every concentration is strictly positive (so that
\* no ratio term has a zero denominator).
AllPositive(comps) == \A i \in DOMAIN comps : IsPos(comps[i])

\* The arguments of a _dCdt call that are valid inputs: a strictly positive
\* state vector and a positive flow.
ValidInputs(args) == AllPositive(args[2]) /\ IsPos(args[4])

C2_RejectedAlterChangesNothing ==
    [][(last'.op = "alter_kinetic_20C" /\ Rejected(kinetics_20C, last'.args))
        => /\ DOMAIN kinetics_20C' = DOMAIN kinetics_20C
           /\ \A n \in DOMAIN kinetics_20C : kinetics_20C'[n] = kinetics_20C[n]
           /\ params' = params
           /\ stoichs' = stoichs
           /\ UNCHANGED <<temperature, bulk_DO, delta_t, KLa, monods, rate_res>>
      ]_vars

\* C2: a call with a positive value for an unrecognized name has been rejected
\* and the name is no key of the reference kinetics.
C2_Witness ==
    /\ last.op = "alter_kinetic_20C"
    /\ last.args[1] = "bogus"
    /\ IsPos(last.args[2])
    /\ "bogus" \notin DOMAIN kinetics_20C
    /\ last.printed # ""

\* C3: an accepted alter_kinetic_20C(name, value) overwrites only
\* reference[name]; the working parameters and the stoichiometry stay as they
\* were, through every call other than update; and a call of update leaves
\* every working parameter equal to its reference value (so the parameter
\* `name` equals value) and the stoichiometry equal to a build from those
\* working parameters.
C3_AlterIsStaleUntilUpdate ==
    [][/\ (last'.op = "alter_kinetic_20C" /\ ~Rejected(kinetics_20C, last'.args))
            => /\ kinetics_20C' = Put(kinetics_20C, last'.args[1], last'.args[2])
               /\ \A n \in DOMAIN kinetics_20C \ {last'.args[1]} :
                      kinetics_20C'[n] = kinetics_20C[n]
       /\ last'.op # "update" => (params' = params /\ stoichs' = stoichs)
       /\ last'.op = "update"
            => /\ last'.raised = "none"
               /\ \A n \in DOMAIN kinetics_20C : Get(params', n) = kinetics_20C[n]
               /\ stoichs' = set_stoichs(EmptyDict, params').d
      ]_vars

\* C3: update has been called after Y_H was overridden to 1/2: the working
\* Y_H is 1/2 and the oxygen coefficient of process 5, 1 - 1/Y_H, is -1,
\* where the defaults give 5/8 and -3/5.
C3_Witness ==
    /\ last.op = "update"
    /\ kinetics_20C["Y_H"] = R(1, 2)
    /\ params["Y_H"] = R(1, 2)
    /\ stoichs["5_1"] = R(-1, 1)
    /\ set_ideal_kinetics_20C_to_defaults["Y_H"] = R(5, 8)

C5_ZeroFlowRaisesFlowError ==
    (last.op = "dCdt" /\ IsZero(last.args[4]))
        => (last.raised = "ZeroDivisionError" /\ last.line = 1244)

\* C6 (as stated): after a _dCdt call that failed with flow = 0, the
\* configuration is unchanged and a following _dCdt call with valid inputs
\* returns the list it returns on an instance whose lists _monods and
\* _rate_res are as the constructor left them.
C6_FailedCallLeavesNoTrace ==
    [][(/\ last.op = "dCdt" /\ IsZero(last.args[4]) /\ last.raised # "none"
        /\ last'.op = "dCdt" /\ ValidInputs(last'.args))
        => /\ config' = config
           /\ last'.raised = "none"
           /\ last'.result =
                 dCdt_run(last'.args[2], last'.args[3], last'.args[4],
                          last'.args[5], last'.args[6], last'.args[7],
                          params, stoichs, KLa, bulk_DO,
                          ListOf(One, NumMonods), ListOf(Zero, NumRates)).result
      ]_vars

\* C7 (as stated): when fix_DO is true or the configured bulk DO is 0, _dCdt
\* (on valid inputs) returns a list whose element 0 is exactly 0.
C7_FixedDOGivesZeroElement ==
    (/\ last.op = "dCdt"
     /\ ValidInputs(last.args)
     /\ (last.args[6] \/ IsZero(bulk_DO)))
        => (last.raised = "none" /\ Item(last.result, 0) = Zero)

\* C8 (as stated): for a strictly positive state vector and a positive flow,
\* _dCdt completes without raising and returns a list of exactly 24 values.
C8_ValidCallReturns24Values ==
    (last.op = "dCdt" /\ ValidInputs(last.args))
        => /\ last.raised = "none"
           /\ DOMAIN last.result = 0..(NumComps - 1)
           /\ \A i \in DOMAIN last.result : ~IsErr(last.result[i])

\* C9: update is idempotent: in the state a call update(T, DO) has left, a
\* second call update(T, DO) leaves the same working parameters and the same
\* stoichiometry (same key sets, same values).
C9_UpdateIdempotent ==
    last.op = "update" =>
        LET again == update_derive(params, stoichs, kinetics_20C)
        IN  /\ again.raised = "none"
            /\ again.params = params
            /\ again.stoichs = stoichs

\* C9: update has been called on an instance whose reference kinetics had
\* been overridden, so the call rebuilt snapshots that differ from those of
\* the constructor.
C9_Witness ==
    /\ last.op = "update"
    /\ last.raised = "none"
    /\ kinetics_20C # set_ideal_kinetics_20C_to_defaults
    /\ params = kinetics_20C

\* C10: after update(T, DO), for any T and DO, the working parameters have
\* exactly the keys of the reference kinetics and every working value equals
\* the reference value of the same name.
C10_ParamsCopyReference ==
    last.op = "update" =>
        /\ DOMAIN params = DOMAIN kinetics_20C
        /\ \A n \in DOMAIN kinetics_20C : params[n] = kinetics_20C[n]

\* C10: update has been called with a temperature other than 20 and DO = 0 on
\* an instance whose reference Y_H is not the default.
C10_Witness ==
    /\ last.op = "update"
    /\ last.args = <<25, Zero>>
    /\ temperature = 25
    /\ params["Y_H"] # set_ideal_kinetics_20C_to_defaults["Y_H"]

----------------------------------------------------------------------------
(* Properties of the derived snapshots, of the rate expressions and of the  *)
(* frame of _dCdt.                                                          *)

\* C11: after construction and after any update (hence in every state, no
\* other operation writing the working parameters), every parameter name
\* read by _set_stoichs or by _reaction_rate is a key of the working
\* parameters, and no call has failed on a missing key.
C11_ReadKeysExist ==
    /\ set_stoichs_reads \subseteq DOMAIN params
    /\ reaction_rate_reads \subseteq DOMAIN params
    /\ last.raised # "KeyError"

\* C11: update has rebuilt the working parameters from overridden reference
\* kinetics, and a key read only by _reaction_rate is among them.
C11_Witness ==
    /\ last.op = "update"
    /\ last.raised = "none"
    /\ kinetics_20C["Y_H"] = R(1, 2)
    /\ "K_H" \in reaction_rate_reads \ set_stoichs_reads
    /\ "K_H" \in DOMAIN params

\* C12: get_params and get_stoichs hand out copies.  The mapping returned
\* has the items of the instance's dict; a step in which the caller adds,
\* changes or removes an entry of the mapping it holds changes nothing of the
\* configuration (working parameters and stoichiometry included); and an
\* update or alter_kinetic_20C call leaves the mapping the caller holds as it
\* was.
C12_GettersReturnCopies ==
    [][/\ last'.op = "get_params"
            => (snapshot'.d = params /\ last'.result = params /\ config' = config)
       /\ last'.op = "get_stoichs"
            => (snapshot'.d = stoichs /\ last'.result = stoichs /\ config' = config)
       /\ last'.op \in {"setitem", "delitem"}
            => config' = config
       /\ last'.op \in {"update", "alter_kinetic_20C"}
            => snapshot' = snapshot
      ]_vars

\* C12: the caller took a snapshot of the working parameters, zeroed its
\* Y_H, added to it a key the parameters do not have, and update then
\* rebuilt the working parameters with an overridden Y_H: the instance holds
\* Y_H = 1/2 without the added key and the snapshot still shows the caller's
\* edits.
C12_Witness ==
    /\ last.op = "update"
    /\ snapshot.of = "params"
    /\ Get(snapshot.d, "Y_H") = Zero
    /\ "5_1" \in DOMAIN snapshot.d
    /\ params["Y_H"] = R(1, 2)
    /\ "5_1" \notin DOMAIN params

\* A state vector in which no concentration is negative.
NonNegative(comps) == \A i \in DOMAIN comps : ~IsNeg(comps[i])

\* C13 (as stated, for the five polyphosphate-storage rates): on a state
\* vector without negative concentration for which every saturation term of
\* _monods could be evaluated and stored, the rate expressions of lines
\* 725-729 (_rate_res[17] .. _rate_res[21]), evaluated on those stored terms
\* and the working parameters, are not negative.
C13_RatesNonNegative ==
    (last.op = "dCdt" /\ NonNegative(last.args[2]) /\ last.line = 704)
        => \A i \in 17..21 :
               ~IsNeg(RateTerm(i, last.args[2], params, monods))

\* C14 (as stated): with the default kinetics as working parameters, a
\* _dCdt call on a state with DO = 2, ammonium = 30 and AOB biomass = 50
\* completes its rate evaluation and leaves in _rate_res[30] a strictly
\* positive ammonia-oxidation rate that is at most q_AOB_AMO x X_AOB =
\* 260.04.
C14_AmmoniaOxidationRate ==
    (/\ last.op = "dCdt"
     /\ last.args[2] = Nitrifying
     /\ params = set_ideal_kinetics_20C_to_defaults)
        => /\ last.raised = "none"
           /\ IsPos(Item(rate_res, 30))
           /\ Mul(params["q_AOB_AMO"], last.args[2][19]) = R(26004, 100)
           /\ ~IsPos(Sub(Item(rate_res, 30), R(26004, 100)))

\* C15: COD is conserved in process 5 (aerobic growth of heterotrophs on
\* fermentable substrate): for the working Y_H (positive in every reachable
\* state) the biomass coefficient '5_16' plus the substrate coefficient '5_2'
\* minus the oxygen coefficient '5_1' is zero, and so is the same balance of
\* the three conversion terms for any rate value.
C15_Process5ConservesCOD ==
    /\ IsPos(Get(params, "Y_H"))
    /\ Sub(Add(Get(stoichs, "5_16"), Get(stoichs, "5_2")),
           Get(stoichs, "5_1")) = Zero
    /\ \A rate \in Values \cup DOs :
           Sub(Add(Mul(Get(stoichs, "5_16"), rate),
                   Mul(Get(stoichs, "5_2"), rate)),
               Mul(Get(stoichs, "5_1"), rate)) = Zero

\* C15: the stoichiometry has been rebuilt for Y_H = 1/2, where the three
\* coefficients are 1, -2 and -1 (the defaults give 1, -8/5 and -3/5).
C15_Witness ==
    /\ last.op = "update"
    /\ params["Y_H"] = R(1, 2)
    /\ stoichs["5_16"] = One
    /\ stoichs["5_2"] = R(-2, 1)
    /\ stoichs["5_1"] = R(-1, 1)
    /\ Coef("5_2", EmptyDict, set_ideal_kinetics_20C_to_defaults) = R(-8, 5)

\* The rate list in which process p (1..40) runs at rate 1 and every other
\* process at rate 0.
OnlyProcess(p) == [i \in 0..(NumRates - 1) |-> IF i = p - 1 THEN One ELSE Zero]

\* The processes for which the stoichiometry s defines a coefficient of
\* component c (0..23).
ProcessesOf(c, s) == {p \in 1..NumRates : StoichKey(p, c + 1) \in DOMAIN s}

\* C16: for the stoichiometry that the constructor or update has built, and
\* for each of the 24 components c: the terms summed by the net-rate function
\* of c are, once each, the pairs (stoichs['p_c'], rate_res[p-1]) of the
\* processes p for which _set_stoichs defines 'p_c'; and with process p alone
\* running at rate 1 the function returns stoichs['p_c'] when that
\* coefficient is defined and 0 when it is not.
C16_NetRatesSumDefinedCoefficients ==
    last.op \in {"ASM2d_N2O", "update"} =>
        \A c \in 0..(NumComps - 1) :
            /\ {NetTerms[c + 1][j] : j \in DOMAIN NetTerms[c + 1]}
                  = {<<StoichKey(p, c + 1), p - 1>> : p \in ProcessesOf(c, stoichs)}
            /\ Len(NetTerms[c + 1]) = Cardinality(ProcessesOf(c, stoichs))
            /\ \A p \in 1..NumRates :
                   rate_of(c, stoichs, OnlyProcess(p))
                      = IF p \in ProcessesOf(c, stoichs)
                        THEN stoichs[StoichKey(p, c + 1)] ELSE Zero

\* C16: update has rebuilt the stoichiometry for Y_H = 1/2; with process 5
\* alone at rate 1 the net rate of oxygen (component 0) is '5_1' = -1, and
\* with process 1 alone, which has no oxygen coefficient, it is 0.
C16_Witness ==
    /\ last.op = "update"
    /\ params["Y_H"] = R(1, 2)
    /\ "1_1" \notin DOMAIN stoichs
    /\ rate_of(0, stoichs, OnlyProcess(1)) = Zero
    /\ rate_of(0, stoichs, OnlyProcess(5)) = R(-1, 1)

\* The mass-balance part of element i: (influent[i] - state[i]) / (vol / flow)
\* plus the net rate of component i, for the arguments args of a _dCdt call.
MassBalance(i, args) ==
    Add(Div(Sub(Item(args[5], i), Item(args[2], i)), Div(args[3], args[4])),
        rate_of(i, stoichs, rate_res))

\* C17 (as stated): a _dCdt call on valid inputs returns a vector whose
\* element i, for i in 1..23, is (influent[i] - state[i]) / (vol / flow) plus
\* the net rate of component i, and whose element 0, when DO is not fixed
\* (fix_DO false and bulk DO not 0), is the same expression plus
\* KLa x (DO_sat - state[0]).
C17_ElementsFollowMassBalance ==
    (last.op = "dCdt" /\ ValidInputs(last.args))
        => /\ last.raised = "none"
           /\ \A i \in 1..(NumComps - 1) :
                  Item(last.result, i) = MassBalance(i, last.args)
           /\ ~(last.args[6] \/ IsZero(bulk_DO))
                  => Item(last.result, 0)
                        = Add(MassBalance(0, last.args),
                              Mul(KLa, Sub(last.args[7], Item(last.args[2], 0))))

\* C18: after a _dCdt call, whether it returned or raised, the state vector
\* and the influent vector handed to it hold the same 24 values as when they
\* were passed.
C18_ListsPassedAreUntouched ==
    last.op = "dCdt" =>
        /\ passed = <<last.args[2], last.args[5]>>
        /\ \A k \in 1..2 : DOMAIN passed[k] = 0..(NumComps - 1)

\* C18: a _dCdt call on the all-ones state has raised after it had stored
\* saturation terms in _monods, and the list it was handed is still all ones.
C18_Witness ==
    /\ last.op = "dCdt"
    /\ last.raised = "IndexError"
    /\ monods # ListOf(One, NumMonods)
    /\ passed # NoLists
    /\ passed[1] = AllOnes

\* C19 (as stated): every _dCdt call on valid inputs recomputes the 40
\* process rates from the state vector it is given and returns a result that
\* depends only on its arguments other than the time and on the
\* configuration: whatever _dCdt calls came before, the rates it leaves in
\* _rate_res and the list it returns are those of the same call on an
\* instance whose lists _monods and _rate_res are as the constructor left
\* them, and the rates are no longer the constructor's zeros.
C19_CallIsPureAndRecomputes ==
    [][(last'.op = "dCdt" /\ ValidInputs(last'.args))
        => LET fresh == dCdt_run(last'.args[2], last'.args[3], last'.args[4],
                                 last'.args[5], last'.args[6], last'.args[7],
                                 params, stoichs, KLa, bulk_DO,
                                 ListOf(One, NumMonods), ListOf(Zero, NumRates))
           IN  /\ last'.raised = "none"
               /\ last'.result = fresh.result
               /\ rate_res' = fresh.rate_res
               /\ monods' = fresh.monods
               /\ rate_res' # ListOf(Zero, NumRates)
      ]_vars

\* C20: a _dCdt call changes nothing of the configuration (reference
\* kinetics, working parameters, stoichiometry, temperature, bulk DO, KLa),
\* whether it returns or raises; the working parameters and the stoichiometry
\* change in no step other than update; and the temperature and the bulk DO
\* (with the temperature offset derived from it) change in no step other
\* than update.
C20_OnlyUpdateRebuilds ==
    [][/\ last'.op = "dCdt" => config' = config
       /\ last'.op # "update"
            => UNCHANGED <<params, stoichs, temperature, bulk_DO, delta_t>>
      ]_vars

\* C20: _dCdt has been called on an instance whose reference Y_H had been
\* overridden without an update, at 25 degC and bulk DO 0: the working
\* parameters and the stoichiometry are still those of the defaults.
C20_Witness ==
    /\ last.op = "dCdt"
    /\ kinetics_20C["Y_H"] = R(1, 2)
    /\ params = set_ideal_kinetics_20C_to_defaults
    /\ stoichs["5_1"] = R(-3, 5)
    /\ temperature = 25
    /\ bulk_DO = Zero

----------------------------------------------------------------------------
(* Properties of the constructor, of the rate evaluation on degenerate      *)
(* states and of the stoichiometry build.                                   *)

\* C21 (as stated): in the state the constructor ASM2d_N2O(T, DO) leaves, the
\* reference kinetics are the published defaults, the working parameters and
\* the stoichiometry are those update(T, DO) would produce (every parameter
\* and every coefficient present, a second derivation changing nothing), the
\* stored temperature and bulk DO are T and DO; and a _dCdt call made
\* directly in that state on valid inputs returns, its result being the one
\* evaluated with these constructor-time values.
C21_ConstructorDerivesEverything ==
    [][last.op = "ASM2d_N2O" =>
          /\ kinetics_20C = set_ideal_kinetics_20C_to_defaults
          /\ temperature = last.args[1]
          /\ bulk_DO = last.args[2]
          /\ delta_t = last.args[1] - 20
          /\ DOMAIN params = DOMAIN set_ideal_kinetics_20C_to_defaults
          /\ DOMAIN stoichs = {StoichAssignments[j][1] : j \in DOMAIN StoichAssignments}
          /\ update_derive(params, stoichs, kinetics_20C)
                = [params |-> params, stoichs |-> stoichs,
                   raised |-> "none", line |-> 0]
          /\ (last'.op = "dCdt" /\ ValidInputs(last'.args)) =>
                /\ last'.raised = "none"
                /\ last'.result =
                      dCdt_run(last'.args[2], last'.args[3], last'.args[4],
                               last'.args[5], last'.args[6], last'.args[7],
                               set_ideal_kinetics_20C_to_defaults,
                               set_stoichs(EmptyDict,
                                           set_ideal_kinetics_20C_to_defaults).d,
                               KLaDefault, last.args[2],
                               ListOf(One, NumMonods),
                               ListOf(Zero, NumRates)).result
      ]_vars

\* C22 (as stated): a _dCdt call on a state vector whose heterotroph biomass
\* (component 15) or PAO biomass (component 16) is zero, the denominators of
\* the ratio terms, does not end with a division-by-zero exception.
C22_ZeroDenominatorIsHandled ==
    (/\ last.op = "dCdt"
     /\ (IsZero(last.args[2][15]) \/ IsZero(last.args[2][16])))
        => last.raised # "ZeroDivisionError"

\* C23 (as stated): the fermentation rate, _rate_res[14], is evaluated without
\* error from the stored saturation terms as
\* q_fe * monods[14] * monods[27] * monods[28] * monods[11] * X_H.  It is
\* read in the states after a _dCdt call that has stored its saturation terms
\* (the call that stops at line 704).
C23_FermentationRateUsesTerm28 ==
    (last.op = "dCdt" /\ last.line = 704) =>
        LET rate == RateTerm(14, last.args[2], params, monods)
        IN  /\ ~IsErr(rate)
            /\ rate = Mul(Mul(Mul(Mul(Mul(Get(params, "q_fe"),
                                          Item(monods, 14)),
                                      Item(monods, 27)),
                                  Item(monods, 28)),
                              Item(monods, 11)),
                          Item(last.args[2], 15))

\* The assignments of _set_stoichs read only coefficients of their own row
\* that an earlier assignment of the same build has stored.
ReadsPrecedeInOwnRow ==
    \A k \in 1..Len(StoichAssignments) :
        \A key \in StoichReads[k] :
            \E j \in 1..(k - 1) :
                /\ StoichAssignments[j][1] = key
                /\ StoichProcess[j] = StoichProcess[k]

\* A matrix left by an earlier build: every coefficient holds another value.
Leftover(s) == [key \in DOMAIN s |-> Add(s[key], One)]

\* The coefficients of s a right-hand side is said to read, and no other.
OnlyReads(s, k) ==
    [key \in StoichReads[k] \cap DOMAIN s |-> s[key]]

\* C24: in _set_stoichs every derived coefficient (alkalinity 'p_12', TSS
\* 'p_22') reads only coefficients of its own row, each stored earlier in the
\* same build; so a build from the empty matrix reads no undefined
\* coefficient and a rebuild over a leftover matrix gives the same matrix.
C24_DerivedCoefficientsReadOwnRow ==
    LET first == set_stoichs(EmptyDict, params)
        again == set_stoichs(Leftover(first.d), params)
    IN  /\ ReadsPrecedeInOwnRow
        /\ \A k \in 1..Len(StoichAssignments) :
               /\ StoichReads[k] # {} =>
                      \E q \in 1..NumRates :
                          StoichAssignments[k][1] \in
                              {StoichKey(q, 12), StoichKey(q, 22)}
               /\ Coef(StoichAssignments[k][1], OnlyReads(first.d, k), params)
                      = Get(first.d, StoichAssignments[k][1])
        /\ first.raised = "none"
        /\ again.raised = "none"
        /\ again.d = first.d

\* C24 witness: a parameter set with an overridden anoxic growth factor has
\* been derived and the matrix holds the derived coefficients of a row.
C24_Witness ==
    /\ last.op = "update"
    /\ last.raised = "none"
    /\ Get(params, "n_G") # Get(set_ideal_kinetics_20C_to_defaults, "n_G")
    /\ {"5_12", "5_22"} \subseteq DOMAIN stoichs
    /\ Get(stoichs, "5_22") = Mul(Get(params, "i_TSSBM"), Get(stoichs, "5_16"))

\* The sum, over the components 1..c that have a coefficient in row p of the
\* matrix s, of that coefficient times the weight w[c] of the component.
RECURSIVE RowSum(_, _, _, _)
RowSum(p, s, w, c) ==
    IF c = 0 THEN Zero
    ELSE Add(RowSum(p, s, w, c - 1),
             IF StoichKey(p, c) \in DOMAIN s
             THEN Mul(w[c], s[StoichKey(p, c)])
             ELSE Zero)

\* Charge per unit of the components NH4 (4), NO2 (8), NO3 (9), PO4 (10),
\* acetate (3) and polyphosphate (18), as the 'p_12' right-hand sides weigh
\* them; every other component carries none.
ChargeWeights ==
    [c \in 1..NumComps |->
        CASE c = 4 -> R(1, 14)
          [] c = 8 -> R(-1, 14)
          [] c = 9 -> R(-1, 14)
          [] c = 10 -> R(-3, 62)
          [] c = 3 -> R(-1, 64)
          [] c = 18 -> R(-1, 31)
          [] OTHER -> Zero]

\* C25: in each of the 40 rows the alkalinity coefficient 'p_12' is the
\* charge-weighted sum of the row's own coefficients over every charged
\* component that has a coefficient in the row.
C25_AlkalinityIsChargeSum ==
    \A p \in 1..NumRates :
        /\ StoichKey(p, 12) \in DOMAIN stoichs
        /\ stoichs[StoichKey(p, 12)] = RowSum(p, stoichs, ChargeWeights, NumComps)

\* C25 witness: the matrix was rebuilt for an overridden factor, and a row with
\* acetate, ammonium, nitrite, nitrate and phosphate (row 11) has a non-zero
\* alkalinity coefficient.
C25_Witness ==
    /\ last.op = "update"
    /\ last.raised = "none"
    /\ Get(params, "n_G") # Get(set_ideal_kinetics_20C_to_defaults, "n_G")
    /\ {StoichKey(11, c) : c \in {3, 4, 8, 9, 10, 12}} \subseteq DOMAIN stoichs
    /\ ~IsZero(stoichs["11_12"])

\* TSS per unit of the particulate components X_I (14), X_S (15), the
\* biomasses X_H (16), X_PAO (17), X_AOB (20) and X_NOB (21), X_PP (18),
\* X_PHA (19), X_MeOH (23) and X_MeP (24), as the 'p_22' right-hand sides
\* weigh them under the parameters p.
TSSWeights(p) ==
    [c \in 1..NumComps |->
        CASE c = 14 -> Get(p, "i_TSSXI")
          [] c = 15 -> Get(p, "i_TSSXS")
          [] c \in {16, 17, 20, 21} -> Get(p, "i_TSSBM")
          [] c = 18 -> R(323, 100)
          [] c = 19 -> R(3, 5)
          [] c \in {23, 24} -> One
          [] OTHER -> Zero]

\* The particulate components.
Particulates == {14, 15, 16, 17, 18, 19, 20, 21, 23, 24}

\* C26: every TSS coefficient 'p_22' is the weighted sum of the particulate
\* coefficients of its row, and every row with a particulate coefficient has
\* a TSS coefficient.
C26_TSSIsParticulateSum ==
    \A p \in 1..NumRates :
        /\ StoichKey(p, 22) \in DOMAIN stoichs =>
               stoichs[StoichKey(p, 22)]
                   = RowSum(p, stoichs, TSSWeights(params), NumComps)
        /\ (\E c \in Particulates : StoichKey(p, c) \in DOMAIN stoichs) =>
               StoichKey(p, 22) \in DOMAIN stoichs

\* C26 witness: the matrix was rebuilt for an overridden factor; a row with
\* X_I, X_S and biomass (row 16, lysis) has its TSS coefficient and a row
\* without particulates (row 15, fermentation) has none.
C26_Witness ==
    /\ last.op = "update"
    /\ last.raised = "none"
    /\ Get(params, "n_G") # Get(set_ideal_kinetics_20C_to_defaults, "n_G")
    /\ {StoichKey(16, c) : c \in {14, 15, 16, 22}} \subseteq DOMAIN stoichs
    /\ ~IsZero(stoichs["16_22"])
    /\ "15_22" \notin DOMAIN stoichs

\* The divisors of the right-hand sides of _set_stoichs under parameters p.
Divisors(p) ==
    {Get(p, "Y_H"), Mul(Get(p, "Y_H"), Get(p, "n_G")),
     Get(p, "Y_PAO"), Mul(Get(p, "Y_PAO"), Get(p, "n_G")),
     Get(p, "Y_AOB"), Get(p, "Y_NOB")}

C28_ParametersStayNonNegative ==
    /\ \A name \in DOMAIN kinetics_20C :
           ~IsErr(kinetics_20C[name]) /\ ~IsNeg(kinetics_20C[name])
    /\ \A name \in DOMAIN params :
           ~IsErr(params[name]) /\ ~IsNeg(params[name])
    /\ ~IsErr(KLa) /\ IsPos(KLa)

\* C28 witness: with an overridden yield in force in both dictionaries and an
\* overridden KLa, a negative value has just been offered and refused.
C28_Witness ==
    /\ last.op = "alter_kinetic_20C"
    /\ last.args = <<"Y_H", R(-1, 2)>>
    /\ last.printed = AlterErrorMessage
    /\ Get(kinetics_20C, "Y_H") = R(1, 2)
    /\ Get(params, "Y_H") = R(1, 2)
    /\ KLa = R(1, 2)

\* C29: in every reachable state, after construction and any sequence of
\* alter_kinetic_20C, update, set_KLa and _dCdt calls, the stoichiometry is
\* exactly what _set_stoichs computes from the current working parameters.
C29_StoichiometryMatchesParameters ==
    stoichs = set_stoichs(EmptyDict, params).d

\* C29 witness: a derivative is requested after an overridden yield has been
\* derived; the coefficient of process 5 is the one of the yield in force.
C29_Witness ==
    /\ last.op = "dCdt"
    /\ Get(params, "Y_H") = R(1, 2)
    /\ Get(kinetics_20C, "Y_H") = R(1, 2)
    /\ Get(stoichs, "5_1") = R(-1, 1)

\* Nitrogen per unit of the components under the parameters p: 1 for NH4 (4),
\* NH2OH (5), N2O (6), NO (7), NO2 (8), NO3 (9) and N2 (13); i_NSF for S_F
\* (2), i_NSI for S_I (11), i_NXI for X_I (14), i_NXS for X_S (15) and i_NBM
\* for the biomasses X_H (16), X_PAO (17), X_AOB (20) and X_NOB (21).
NitrogenWeights(p) ==
    [c \in 1..NumComps |->
        CASE c \in {4, 5, 6, 7, 8, 9, 13} -> One
          [] c = 2 -> Get(p, "i_NSF")
          [] c = 11 -> Get(p, "i_NSI")
          [] c = 14 -> Get(p, "i_NXI")
          [] c = 15 -> Get(p, "i_NXS")
          [] c \in {16, 17, 20, 21} -> Get(p, "i_NBM")
          [] OTHER -> Zero]

\* C30 (as stated): for every reachable parameter set, overridden f_SI and
\* n_G included, the nitrogen-weighted sum of the coefficients of each of the
\* 40 rows is zero.
C30_NitrogenIsConserved ==
    \A p \in 1..NumRates :
        RowSum(p, stoichs, NitrogenWeights(params), NumComps) = Zero
====
